---- MODULE Spec2Model ----
(***************************************************************************)
(* Trading journal (trade-paste-analytics): the client-side aggregation    *)
(* of a user's trade rows on the Index, Analytics and Dashboard pages and  *)
(* the statistics built by the analyze-trades edge function.               *)
(*                                                                         *)
(* Numbers.  A JavaScript number is an IEEE-754 double.  risk and reward    *)
(* are DECIMAL(10,2) columns, held in cents; the number such a column     *)
(* arrives as, and every sum of such numbers, is a double modelled bit    *)
(* for bit (Val, Plus, Minus, NumLess): an integer as [int |-> TRUE, v],   *)
(* any other double as sign, odd mantissa and binary exponent.            *)
(* risk_reward_ratio is the store's DECIMAL(5,2) column, held in           *)
(* hundredths (150 is 1.50): the bucket boundaries are doubles that are   *)
(* multiples of 0.5, so comparing the hundredths decides as comparing the *)
(* doubles does.  A quotient such as a win rate is held as an exact       *)
(* fraction [n, d], with d = 0 for the IEEE results NaN (0/0) and         *)
(* Infinity (x/0); the rounding of a quotient to a double is not          *)
(* modelled.                                                               *)
(*                                                                         *)
(* An optional column is a sequence: << >> is SQL NULL / JS null, <<v>> a  *)
(* value.                                                                  *)
(***************************************************************************)
EXTENDS Integers, Sequences, FiniteSets, TLC

\* ------------------------------------------------------------------ bounds

\* Longest trade list drawn in Spec.
MaxTrades == 2

\* ------------------------------------------------------------- JS / SQL

Null == << >>

Some(v) == << v >>

\* ToBoolean of a nullable number: null and 0 are falsy.
Truthy(x) == x # Null /\ x[1] # 0

\* ToBoolean of a nullable string: null and '' are falsy.
TruthyStr(x) == x # Null /\ x[1] # ""

\* ToNumber of a nullable number, as the relational operators apply it:
\* null becomes 0.
ToNumber(x) == IF x = Null THEN 0 ELSE x[1]

Abs(n) == IF n < 0 THEN -n ELSE n

RECURSIVE Gcd(_, _)
Gcd(a, b) == IF b = 0 THEN a ELSE Gcd(b, a % b)

NaN == [n |-> 0, d |-> 0]

Infinity == [n |-> 1, d |-> 0]

\* n / d on numbers: an exact fraction in lowest terms; x/0 is Infinity
\* (with the sign of x) and 0/0 is NaN.
JsDiv(n, d) ==
  IF d = 0
    THEN (IF n = 0 THEN NaN ELSE [n |-> IF n > 0 THEN 1 ELSE -1, d |-> 0])
    ELSE LET g == Gcd(Abs(n), Abs(d))
             s == IF d < 0 THEN -1 ELSE 1
         IN  [n |-> (s * n) \div g, d |-> Abs(d) \div g]

\* x || 0 on a number: NaN and 0 are falsy.
OrZero(x) == IF x.n = 0 THEN [n |-> 0, d |-> 1] ELSE x

\* The generated column risk_reward_ratio DECIMAL(5,2): reward / risk rounded
\* half away from zero to two places, in hundredths; NULL unless risk > 0
\* and reward is not NULL.
GeneratedRatio(risk, reward) ==
  IF risk # Null /\ risk[1] > 0 /\ reward # Null
    THEN LET n == 100 * reward[1]
             q == (2 * Abs(n) + risk[1]) \div (2 * risk[1])
         IN  Some(IF n < 0 THEN -q ELSE q)
    ELSE Null

\* ------------------------------------------------ numbers of amounts

\* A natural number as its digits in radix 2^15, least significant first,
\* with no leading zero digit; 0 is << >>.
Radix == 2 ^ 15

DigitAt(a, i) == IF i \in 1..Len(a) THEN a[i] ELSE 0

BTrim(a) ==
  LET nz == { i \in 1..Len(a) : a[i] # 0 }
  IN  IF nz = {} THEN << >>
      ELSE SubSeq(a, 1, CHOOSE i \in nz : \A j \in nz : j <= i)

RECURSIVE BOfNat(_)
BOfNat(n) == IF n = 0 THEN << >> ELSE << n % Radix >> \o BOfNat(n \div Radix)

RECURSIVE BToNat(_)
BToNat(a) == IF a = << >> THEN 0 ELSE a[1] + Radix * BToNat(Tail(a))

BAdd(a, b) ==
  LET n == (IF Len(a) > Len(b) THEN Len(a) ELSE Len(b)) + 1
      C[i \in 0..n] ==
        IF i = 0 THEN 0 ELSE (DigitAt(a, i) + DigitAt(b, i) + C[i - 1]) \div Radix
  IN  BTrim([i \in 1..n |-> (DigitAt(a, i) + DigitAt(b, i) + C[i - 1]) % Radix])

\* a - b for a >= b.
BSub(a, b) ==
  LET n == Len(a)
      B[i \in 0..n] ==
        IF i = 0 THEN 0
        ELSE IF DigitAt(a, i) - DigitAt(b, i) - B[i - 1] < 0 THEN 1 ELSE 0
  IN  BTrim([i \in 1..n |-> (DigitAt(a, i) - DigitAt(b, i) - B[i - 1] + Radix) % Radix])

BLess(a, b) ==
  IF Len(a) # Len(b) THEN Len(a) < Len(b)
  ELSE \E i \in 1..Len(a) :
         a[i] < b[i] /\ \A j \in (i + 1)..Len(a) : a[j] = b[j]

\* a * k for 0 < k <= 2^15.
BMulSmall(a, k) ==
  LET n == Len(a) + 1
      C[i \in 0..n] ==
        IF i = 0 THEN 0 ELSE (DigitAt(a, i) * k + C[i - 1]) \div Radix
  IN  BTrim([i \in 1..n |-> (DigitAt(a, i) * k + C[i - 1]) % Radix])

\* The quotient and the remainder of a by d, 0 < d <= 2^15.
BDivSmall(a, d) ==
  LET n == Len(a)
      R[j \in 0..n] ==
        IF j = 0 THEN 0 ELSE (R[j - 1] * Radix + a[n - j + 1]) % d
  IN  [q |-> BTrim([i \in 1..n |-> (R[n - i] * Radix + a[i]) \div d]),
       r |-> R[n]]

\* a * 2^k
BShl(a, k) ==
  IF a = << >> THEN << >>
  ELSE [i \in 1..(k \div 15) |-> 0] \o BMulSmall(a, 2 ^ (k % 15))

\* floor(a / 2^k), and whether a mod 2^k is not 0.
BShr(a, k) ==
  LET w    == k \div 15
      high == IF w >= Len(a) THEN << >> ELSE SubSeq(a, w + 1, Len(a))
      qr   == BDivSmall(high, 2 ^ (k % 15))
  IN  [q  |-> qr.q,
       nz |-> qr.r # 0 \/ \E i \in 1..w : DigitAt(a, i) # 0]

BOdd(a) == a # << >> /\ a[1] % 2 = 1

\* The number of binary digits of a.
BitLen(a) ==
  IF a = << >> THEN 0
  ELSE 15 * (Len(a) - 1) + Cardinality({ i \in 0..14 : 2 ^ i <= a[Len(a)] })

\* The number of trailing zero binary digits of a > 0.
TrailingZeros(a) ==
  LET w == CHOOSE i \in 1..Len(a) : a[i] # 0 /\ \A j \in 1..(i - 1) : a[j] = 0
  IN  15 * (w - 1) + Cardinality({ i \in 1..14 : a[w] % (2 ^ i) = 0 })

\* A JavaScript number that an amount or a sum of amounts takes: an IEEE-754
\* double.  An integer of magnitude below 2^30 is [int |-> TRUE, v]; any
\* other nonzero double is [int |-> FALSE, neg, m, e], the value
\* (-1)^neg * m * 2^e with m odd and of at most 53 binary digits.
NInt(v) == [int |-> TRUE, v |-> v]

\* The double (-1)^neg * m * 2^e for odd m, in its one representation.
CanonOdd(neg, m, e) ==
  IF e >= 0 /\ BitLen(m) + e <= 30
    THEN NInt((IF neg THEN -1 ELSE 1) * BToNat(BShl(m, e)))
    ELSE [int |-> FALSE, neg |-> neg, m |-> m, e |-> e]

\* The double (-1)^neg * M * 2^e for M > 0 of at most 53 binary digits.
Canon(neg, M, e) ==
  CanonOdd(neg, BShr(M, TrailingZeros(M)).q, e + TrailingZeros(M))

\* kept + 1 if the digits cut off are more than half a unit, or half a unit
\* with kept odd; else kept.
RoundUp(kept, half, rest) ==
  IF half /\ (rest \/ BOdd(kept)) THEN BAdd(kept, << 1 >>) ELSE kept

\* low is M without all but one of the digits to cut off, and whether those
\* were not all 0.
RoundLow(low, sticky) ==
  RoundUp(BShr(low.q, 1).q, BOdd(low.q), sticky \/ low.nz)

\* Round to nearest, ties to even, at 53 binary digits: the double nearest
\* to (-1)^neg * (M + f) * 2^e, where M > 0 and 0 <= f < 1 with f > 0 iff
\* sticky.
Round53(neg, M, e, sticky) ==
  IF BitLen(M) <= 53 THEN Canon(neg, M, e)
  ELSE Canon(neg, RoundLow(BShr(M, BitLen(M) - 54), sticky), e + BitLen(M) - 53)

\* A nonzero number as sign, magnitude digits and exponent.
AsDbl(a) ==
  IF a.int THEN [neg |-> a.v < 0, m |-> BOfNat(IF a.v < 0 THEN -a.v ELSE a.v), e |-> 0]
  ELSE [neg |-> a.neg, m |-> a.m, e |-> a.e]

IsZero(a) == a.int /\ a.v = 0

\* The sum of (-1)^xneg * X * 2^e0 and (-1)^yneg * Y * 2^e0, rounded.
AddAligned(xneg, X, yneg, Y, e0) ==
  IF xneg = yneg THEN Round53(xneg, BAdd(X, Y), e0, FALSE)
  ELSE IF X = Y THEN NInt(0)
  ELSE IF BLess(X, Y) THEN Round53(yneg, BSub(Y, X), e0, FALSE)
  ELSE Round53(xneg, BSub(X, Y), e0, FALSE)

\* x + y on nonzero doubles given as sign, magnitude and exponent.
AddDbl(x, y, e0) ==
  AddAligned(x.neg, BShl(x.m, x.e - e0), y.neg, BShl(y.m, y.e - e0), e0)

\* a + b on doubles.
Plus(a, b) ==
  IF a.int /\ b.int THEN NInt(a.v + b.v)
  ELSE IF IsZero(a) THEN b
  ELSE IF IsZero(b) THEN a
  ELSE AddDbl(AsDbl(a), AsDbl(b),
              IF AsDbl(a).e < AsDbl(b).e THEN AsDbl(a).e ELSE AsDbl(b).e)

Negate(a) ==
  IF a.int THEN NInt(-a.v)
  ELSE [int |-> FALSE, neg |-> ~a.neg, m |-> a.m, e |-> a.e]

\* a - b on doubles.
Minus(a, b) == Plus(a, Negate(b))

IsNegative(a) == IF a.int THEN a.v < 0 ELSE a.neg

\* a < b on doubles.
NumLess(a, b) == IsNegative(Minus(a, b))

\* The quotient `qr` of |c| * 2^64 by 100, rounded.
ValOf(neg, qr) == Round53(neg, qr.q, -64, qr.r # 0)

\* The number a DECIMAL(10,2) column value of c cents arrives as: the double
\* nearest to c / 100.
Val(c) ==
  IF c % 100 = 0 THEN NInt(c \div 100)
  ELSE ValOf(c < 0, BDivSmall(BShl(BOfNat(IF c < 0 THEN -c ELSE c), 64), 100))

\* ------------------------------------------------------------- the store

\* CHECK (outcome IN ('Win', 'Loss', 'BE')) and the form's z.enum.
Outcomes == {"Win", "Loss", "BE"}

\* Classification columns of the rows drawn in Spec: pair, session name,
\* local hour of trade_datetime, setup.  "7" is a setup label that is a
\* canonical array index.
Classes ==
  { [pair |-> "EURUSD", session_name |-> "London", hour |-> 9,  setup |-> Some("Breakout")],
    [pair |-> "GBPUSD", session_name |-> "London", hour |-> 14, setup |-> Null],
    [pair |-> "EURUSD", session_name |-> "Asia",   hour |-> 3,  setup |-> Some("7")] }

\* Result columns of the rows drawn in Spec: outcome, risk and reward
\* (DECIMAL(10,2), in cents).
Results ==
  { [outcome |-> "Win",  risk |-> Some(200), reward |-> Some(300)],
    [outcome |-> "Win",  risk |-> Null,      reward |-> Null],
    [outcome |-> "Win",  risk |-> Some(100), reward |-> Some(-100)],
    [outcome |-> "Loss", risk |-> Some(200), reward |-> Some(100)],
    [outcome |-> "Loss", risk |-> Null,      reward |-> Some(300)],
    [outcome |-> "Loss", risk |-> Some(100), reward |-> Some(200)],
    [outcome |-> "BE",   risk |-> Some(100), reward |-> Some(300)],
    [outcome |-> "BE",   risk |-> Some(0),   reward |-> Some(100)] }

\* A row of public.trades as the pages select it, joined with its session.
Row(c, r) ==
  [pair |-> c.pair, session_name |-> c.session_name, hour |-> c.hour,
   setup |-> c.setup, risk |-> r.risk, reward |-> r.reward,
   risk_reward_ratio |-> GeneratedRatio(r.risk, r.reward),
   outcome |-> r.outcome]

TradeRows == { Row(c, r) : c \in Classes, r \in Results }

\* All lists of at most n elements of S.
ListsUpTo(S, n) == UNION { [1..k -> S] : k \in 0..n }

\* --------------------------------------------------- arrays and objects

\* arr.filter(...): the elements of arr at the indices `kept`, in order.
Filter(arr, kept) ==
  LET F[i \in 0..Len(arr)] ==
        IF i = 0 THEN << >>
        ELSE IF i \in kept THEN Append(F[i - 1], arr[i]) ELSE F[i - 1]
  IN  F[Len(arr)]

\* acc[k] after if (!acc[k]) acc[k] = init.
GroupGet(acc, k, init) == IF k \in DOMAIN acc THEN acc[k] ELSE init

\* The object acc after acc[k] = v.
GroupPut(acc, k, v) ==
  [y \in DOMAIN acc \cup {k} |-> IF y = k THEN v ELSE acc[y]]

\* The strings of the model that name a property every object literal
\* inherits from Object.prototype; its value is an object, which is truthy.
Inherited == {"constructor"}

\* The string keys added so far and one more: a key is added once, and a
\* key the object inherits is never added (the callback's !acc[k] is false).
AddKey(added, k) ==
  IF k \in Inherited \/ \E j \in 1..Len(added) : added[j] = k
    THEN added ELSE Append(added, k)

\* The own string keys of a grouping reduce's result in the order they were
\* added; keys[i] is the key of element i.
FirstSeen(keys) ==
  LET F[i \in 0..Len(keys)] ==
        IF i = 0 THEN << >> ELSE AddKey(F[i - 1], keys[i])
  IN  F[Len(keys)]

\* The strings of the model that are canonical array indices, with their
\* numeric value.
ArrayIndex == [k \in {"7"} |-> 7]

\* The elements of the set S of integers in ascending order.
RECURSIVE Ascending(_)
Ascending(S) ==
  IF S = {} THEN << >>
  ELSE LET m == CHOOSE x \in S : \A y \in S : x <= y
       IN  << m >> \o Ascending(S \ {m})

\* The array-index keys among `added`, in ascending numeric order.
IndexKeys(added) ==
  LET vals == Ascending({ ArrayIndex[added[i]] :
                          i \in { j \in 1..Len(added) : added[j] \in DOMAIN ArrayIndex } })
  IN  [i \in 1..Len(vals) |-> CHOOSE k \in DOMAIN ArrayIndex : ArrayIndex[k] = vals[i]]

\* Object.entries / OrdinaryOwnPropertyKeys of an object with string keys
\* added in the order `added`: array-index keys in ascending numeric order,
\* then the other keys in insertion order.
OwnKeys(added) ==
  IndexKeys(added)
    \o Filter(added, { i \in 1..Len(added) : added[i] \notin DOMAIN ArrayIndex })

\* `sorted` with x placed after its first n elements.
InsertAfter(sorted, x, n) ==
  SubSeq(sorted, 1, n) \o << x >> \o SubSeq(sorted, n + 1, Len(sorted))

\* `sorted` with x placed after the elements whose total is not less.
InsertByTotal(sorted, x) ==
  InsertAfter(sorted, x,
              Cardinality({ j \in 1..Len(sorted) : sorted[j].total >= x.total }))

\* arr.sort((a, b) => b.total - a.total): a stable sort, descending.
SortByTotal(arr) ==
  LET F[i \in 0..Len(arr)] ==
        IF i = 0 THEN << >> ELSE InsertByTotal(F[i - 1], arr[i])
  IN  F[Len(arr)]

\* `sorted` with x placed after the elements whose pnl is not less.
InsertByPnl(sorted, x) ==
  InsertAfter(sorted, x,
              Cardinality({ j \in 1..Len(sorted) : ~NumLess(sorted[j].pnl, x.pnl) }))

\* arr.sort((a, b) => b.pnl - a.pnl): a stable sort, descending.
SortByPnl(arr) ==
  LET F[i \in 0..Len(arr)] ==
        IF i = 0 THEN << >> ELSE InsertByPnl(F[i - 1], arr[i])
  IN  F[Len(arr)]

\* arr.slice(0, n)
Slice0(arr, n) == SubSeq(arr, 1, IF Len(arr) < n THEN Len(arr) ELSE n)

\* ------------------------------------------------------- program constants

\* Array.from({ length: 24 }, ...): the hour slots of hourlyStats.
HourSlots == 24

\* .slice(0, 10): the setups kept in setupStats.
TopSetups == 10

\* --------------------------------------------- Analytics.calculateAnalytics

IsWin(t) == t.outcome = "Win"

IsLoss(t) == t.outcome = "Loss"

\* arr.filter(t => t.outcome === 'Win').length
CountWins(arr) == Len(Filter(arr, { i \in 1..Len(arr) : IsWin(arr[i]) }))

\* x * k on a quotient, k an integer.
Times(x, k) == JsDiv(k * x.n, x.d)

\* (x) * 100 on a quotient.
Times100(x) == Times(x, 100)

\* PnLStep with the risk of a Loss added instead of taken off.
PnLStepUnsigned(sum, trade) ==
  IF trade.outcome = "Win" /\ Truthy(trade.reward)
    THEN Plus(sum, Val(trade.reward[1]))
  ELSE IF trade.outcome = "Loss" /\ Truthy(trade.risk)
    THEN Plus(sum, Val(trade.risk[1]))
  ELSE sum

\* The reduce callback of totalPnL.
PnLStep(sum, trade) ==
  IF trade.outcome = "Win" /\ Truthy(trade.reward)
    THEN Plus(sum, Val(trade.reward[1]))
  ELSE IF trade.outcome = "Loss" /\ Truthy(trade.risk)
    THEN Minus(sum, Val(trade.risk[1]))
  ELSE sum

\* tradesData.reduce(PnLStep, 0)
A_totalPnL(tradesData) ==
  LET F[i \in 0..Len(tradesData)] ==
        IF i = 0 THEN NInt(0) ELSE PnLStep(F[i - 1], tradesData[i])
  IN  F[Len(tradesData)]

\* rated.reduce((sum, t) => sum + t.risk_reward_ratio, 0) / rated.length || 0
\* for the trades `rated` (in hundredths).
A_avgOf(rated) ==
  LET S[i \in 0..Len(rated)] ==
        IF i = 0 THEN 0 ELSE S[i - 1] + rated[i].risk_reward_ratio[1]
  IN  OrZero(JsDiv(S[Len(rated)], Len(rated)))

\* The sum of the truthy ratios over their number, || 0.
A_avgRiskReward(tradesData) ==
  A_avgOf(Filter(tradesData, { i \in 1..Len(tradesData) :
                               Truthy(tradesData[i].risk_reward_ratio) }))

SessionOf(t) == t.session_name

SetupOf(t) == IF TruthyStr(t.setup) THEN t.setup[1] ELSE "Unknown"

PairOf(t) == t.pair

HourOf(t) == t.hour

\* The reduce callback of sessionGroups, setupGroups and hourlyGroups on the
\* group of the trade.
A_CountStep(data, trade) ==
  [wins   |-> data.wins + (IF trade.outcome = "Win" THEN 1 ELSE 0),
   losses |-> data.losses + (IF trade.outcome = "Loss" THEN 1 ELSE 0),
   total  |-> data.total + 1]

\* One callback of the reduce: the trade, of key k, is counted in acc[k].
\* For a key in `proto`, the properties acc inherits, !acc[k] is false and
\* the counts are written on the inherited object: acc gets no own property.
A_CountPut(acc, k, trade, proto) ==
  IF k \in proto THEN acc
  ELSE GroupPut(acc, k,
                A_CountStep(GroupGet(acc, k, [wins |-> 0, losses |-> 0, total |-> 0]),
                            trade))

\* tradesData.reduce((acc, trade) => ..., {}), keys[i] the key of trade i.
A_countGroups(tradesData, keys, proto) ==
  LET F[i \in 0..Len(tradesData)] ==
        IF i = 0 THEN << >> ELSE A_CountPut(F[i - 1], keys[i], tradesData[i], proto)
  IN  F[Len(tradesData)]

A_sessionGroups(tradesData) ==
  A_countGroups(tradesData, [i \in 1..Len(tradesData) |-> SessionOf(tradesData[i])],
                Inherited)

\* Object.entries(sessionGroups).map(([session, data]) => ({ session,
\* ...data, winRate })), the keys of the object being `keys` in their order.
A_sessionEntries(groups, keys) ==
  [i \in 1..Len(keys) |->
     [session |-> keys[i], wins |-> groups[keys[i]].wins,
      losses |-> groups[keys[i]].losses, total |-> groups[keys[i]].total,
      winRate |-> Times100(JsDiv(groups[keys[i]].wins, groups[keys[i]].total))]]

A_sessionStats(tradesData) ==
  A_sessionEntries(A_sessionGroups(tradesData),
                   OwnKeys(FirstSeen([i \in 1..Len(tradesData) |->
                                        SessionOf(tradesData[i])])))

A_setupGroups(tradesData) ==
  A_countGroups(tradesData, [i \in 1..Len(tradesData) |-> SetupOf(tradesData[i])],
                Inherited)

\* Object.entries(setupGroups).map(([setup, data]) => ({ setup, ...data,
\* winRate })), the keys of the object being `keys` in their order.
A_setupEntriesOf(groups, keys) ==
  [i \in 1..Len(keys) |->
     [setup |-> keys[i], wins |-> groups[keys[i]].wins,
      losses |-> groups[keys[i]].losses, total |-> groups[keys[i]].total,
      winRate |-> Times100(JsDiv(groups[keys[i]].wins, groups[keys[i]].total))]]

\* The setup entries before the sort.
A_setupEntries(tradesData) ==
  A_setupEntriesOf(A_setupGroups(tradesData),
                   OwnKeys(FirstSeen([i \in 1..Len(tradesData) |->
                                        SetupOf(tradesData[i])])))

\* A_setupStats with the cut made before the sort.
A_setupStatsCutFirst(tradesData) ==
  SortByTotal(Slice0(A_setupEntries(tradesData), TopSetups))

\* .sort((a, b) => b.total - a.total).slice(0, 10)
A_setupStats(tradesData) ==
  Slice0(SortByTotal(A_setupEntries(tradesData)), TopSetups)

\* The reduce callback of pairGroups on the group of the trade.
A_PairStep(data, trade) ==
  [wins   |-> data.wins + (IF trade.outcome = "Win" THEN 1 ELSE 0),
   losses |-> data.losses + (IF trade.outcome = "Loss" THEN 1 ELSE 0),
   total  |-> data.total + 1,
   pnl    |-> IF trade.outcome = "Win" /\ Truthy(trade.reward)
                THEN Plus(data.pnl, Val(trade.reward[1]))
              ELSE IF trade.outcome = "Loss" /\ Truthy(trade.risk)
                THEN Minus(data.pnl, Val(trade.risk[1]))
              ELSE data.pnl]

\* One callback of the pairGroups reduce.
A_PairPut(acc, k, trade) ==
  IF k \in Inherited THEN acc
  ELSE GroupPut(acc, k,
                A_PairStep(GroupGet(acc, k, [wins |-> 0, losses |-> 0, total |-> 0,
                                             pnl |-> NInt(0)]), trade))

A_pairGroups(tradesData) ==
  LET F[i \in 0..Len(tradesData)] ==
        IF i = 0 THEN << >>
        ELSE A_PairPut(F[i - 1], PairOf(tradesData[i]), tradesData[i])
  IN  F[Len(tradesData)]

\* Object.entries(pairGroups).map(([pair, data]) => ({ pair, ...data,
\* winRate })), the keys of the object being `keys` in their order.
A_pairEntries(groups, keys) ==
  [i \in 1..Len(keys) |->
     [pair |-> keys[i], wins |-> groups[keys[i]].wins,
      losses |-> groups[keys[i]].losses, total |-> groups[keys[i]].total,
      pnl |-> groups[keys[i]].pnl,
      winRate |-> Times100(JsDiv(groups[keys[i]].wins, groups[keys[i]].total))]]

A_pairStats(tradesData) ==
  SortByTotal(A_pairEntries(A_pairGroups(tradesData),
                            OwnKeys(FirstSeen([i \in 1..Len(tradesData) |->
                                                 PairOf(tradesData[i])]))))

A_hourlyGroups(tradesData) ==
  A_countGroups(tradesData, [i \in 1..Len(tradesData) |-> HourOf(tradesData[i])],
                {})

\* x || 0 on a count.
CountOrZero(x) == IF x = 0 THEN 0 ELSE x

\* (_, hour) => ({ hour, wins: hourlyGroups[hour]?.wins || 0, ...,
\* winRate: hourlyGroups[hour] ? (wins / total) * 100 : 0 })
A_HourEntry(hourlyGroups, hour) ==
  IF hour \in DOMAIN hourlyGroups
    THEN [hour   |-> hour,
          wins   |-> CountOrZero(hourlyGroups[hour].wins),
          losses |-> CountOrZero(hourlyGroups[hour].losses),
          total  |-> CountOrZero(hourlyGroups[hour].total),
          winRate |-> Times100(JsDiv(hourlyGroups[hour].wins, hourlyGroups[hour].total))]
    ELSE [hour |-> hour, wins |-> 0, losses |-> 0, total |-> 0, winRate |-> JsDiv(0, 1)]

\* A_HourSlots with an entry only for the hours that have trades.
A_HourSlotsSeen(hourlyGroups) ==
  [i \in 1..Cardinality(DOMAIN hourlyGroups) |->
     A_HourEntry(hourlyGroups, Ascending(DOMAIN hourlyGroups)[i])]

\* Array.from({ length: 24 }, (_, hour) => ...): entry i is hour i - 1.
A_HourSlots(hourlyGroups) ==
  [i \in 1..HourSlots |-> A_HourEntry(hourlyGroups, i - 1)]

A_hourlyStats(tradesData) == A_HourSlots(A_hourlyGroups(tradesData))

Finite(m) == [n |-> m, d |-> 1]

\* x < max for an integer x and a bound that is finite or Infinity.
JsLess(x, max) == IF max.d = 0 THEN max.n > 0 ELSE x * max.d < max.n

\* The bucket boundaries of rrDistribution, in hundredths.
A_rrRanges ==
  << [range |-> "0-0.5", min |-> 0,   max |-> Finite(50)],
     [range |-> "0.5-1", min |-> 50,  max |-> Finite(100)],
     [range |-> "1-1.5", min |-> 100, max |-> Finite(150)],
     [range |-> "1.5-2", min |-> 150, max |-> Finite(200)],
     [range |-> "2-3",   min |-> 200, max |-> Finite(300)],
     [range |-> "3+",    min |-> 300, max |-> Infinity] >>

\* InRange with the upper boundary inside the range.
InRangeClosed(t, min, max) ==
  /\ ToNumber(t.risk_reward_ratio) >= min
  /\ (max.d = 0 \/ ToNumber(t.risk_reward_ratio) * max.d <= max.n)

\* t.risk_reward_ratio >= min && t.risk_reward_ratio < max
InRange(t, min, max) ==
  ToNumber(t.risk_reward_ratio) >= min /\ JsLess(ToNumber(t.risk_reward_ratio), max)

\* arr.filter(t => t.risk_reward_ratio >= min && t.risk_reward_ratio < max)
TradesInRange(arr, range) ==
  Filter(arr, { i \in 1..Len(arr) : InRange(arr[i], range.min, range.max) })

A_rrDistribution(tradesData) ==
  [b \in 1..Len(A_rrRanges) |->
     [range |-> A_rrRanges[b].range,
      count |-> Len(TradesInRange(tradesData, A_rrRanges[b]))]]

\* The object calculateAnalytics builds from a list that is not empty.
A_data(tradesData) ==
  [totalTrades    |-> Len(tradesData),
   winRate        |-> Times100(JsDiv(CountWins(tradesData), Len(tradesData))),
   totalPnL       |-> A_totalPnL(tradesData),
   avgRiskReward  |-> A_avgRiskReward(tradesData),
   sessionStats   |-> A_sessionStats(tradesData),
   setupStats     |-> A_setupStats(tradesData),
   pairStats      |-> A_pairStats(tradesData),
   hourlyStats    |-> A_hourlyStats(tradesData),
   rrDistribution |-> A_rrDistribution(tradesData)]

\* calculateAnalytics without its return on an empty list.
calculateAnalyticsOnEmpty(tradesData) == Some(A_data(tradesData))

\* The value calculateAnalytics passes to setAnalytics.
calculateAnalytics(tradesData) ==
  IF Len(tradesData) = 0 THEN Null ELSE Some(A_data(tradesData))

\* ------------------------------------------- Dashboard.fetchDashboardData

\* D_SessionStep counting only the trades that are a Win or a Loss.
D_SessionStepDecided(data, trade) ==
  [pnl    |-> IF trade.outcome = "Win" /\ Truthy(trade.reward)
                THEN Plus(data.pnl, Val(trade.reward[1]))
              ELSE IF trade.outcome = "Loss" /\ Truthy(trade.risk)
                THEN Minus(data.pnl, Val(trade.risk[1]))
              ELSE data.pnl,
   wins   |-> data.wins
                + (IF trade.outcome = "Win" /\ Truthy(trade.reward) THEN 1 ELSE 0),
   losses |-> data.losses
                + (IF trade.outcome = "Loss" /\ Truthy(trade.risk) THEN 1 ELSE 0),
   count  |-> data.count + (IF trade.outcome \in {"Win", "Loss"} THEN 1 ELSE 0)]

\* The reduce callback of the Dashboard's sessionGroups on the group of the
\* trade.
D_SessionStep(data, trade) ==
  [pnl    |-> IF trade.outcome = "Win" /\ Truthy(trade.reward)
                THEN Plus(data.pnl, Val(trade.reward[1]))
              ELSE IF trade.outcome = "Loss" /\ Truthy(trade.risk)
                THEN Minus(data.pnl, Val(trade.risk[1]))
              ELSE data.pnl,
   wins   |-> data.wins
                + (IF trade.outcome = "Win" /\ Truthy(trade.reward) THEN 1 ELSE 0),
   losses |-> data.losses
                + (IF trade.outcome = "Loss" /\ Truthy(trade.risk) THEN 1 ELSE 0),
   count  |-> data.count + 1]

\* One callback of the sessionGroups reduce.
D_SessionPut(acc, k, trade) ==
  IF k \in Inherited THEN acc
  ELSE GroupPut(acc, k,
                D_SessionStep(GroupGet(acc, k, [pnl |-> NInt(0), wins |-> 0, losses |-> 0,
                                                count |-> 0]), trade))

D_sessionGroups(formattedTrades) ==
  LET F[i \in 0..Len(formattedTrades)] ==
        IF i = 0 THEN << >>
        ELSE D_SessionPut(F[i - 1], SessionOf(formattedTrades[i]), formattedTrades[i])
  IN  F[Len(formattedTrades)]

\* Object.entries(groups).map(([session, data]) => ({ session, pnl, winRate,
\* count })), the keys of the object being `keys` in their order.
D_sessionEntries(groups, keys) ==
  [i \in 1..Len(keys) |->
     [session |-> keys[i], pnl |-> groups[keys[i]].pnl,
      winRate |-> Times100(JsDiv(groups[keys[i]].wins, groups[keys[i]].count)),
      count |-> groups[keys[i]].count]]

D_profitableSessions(formattedTrades) ==
  SortByPnl(D_sessionEntries(D_sessionGroups(formattedTrades),
                             OwnKeys(FirstSeen([i \in 1..Len(formattedTrades) |->
                                                  SessionOf(formattedTrades[i])]))))

\* The bucket boundaries of profitableRR, in hundredths.
D_rrRanges ==
  << [range |-> "< 1",   min |-> 0,   max |-> Finite(100)],
     [range |-> "1-1.5", min |-> 100, max |-> Finite(150)],
     [range |-> "1.5-2", min |-> 150, max |-> Finite(200)],
     [range |-> "2-3",   min |-> 200, max |-> Finite(300)],
     [range |-> "> 3",   min |-> 300, max |-> Infinity] >>

\* The entry of one range, from the trades in it.
D_RangeEntry(range, tradesInRange) ==
  [range |-> range.range,
   pnl   |-> A_totalPnL(tradesInRange),
   count |-> Len(tradesInRange),
   avgWinRate |-> IF Len(tradesInRange) > 0
                    THEN Times100(JsDiv(CountWins(tradesInRange), Len(tradesInRange)))
                    ELSE JsDiv(0, 1)]

D_profitableRR(formattedTrades) ==
  [b \in 1..Len(D_rrRanges) |->
     D_RangeEntry(D_rrRanges[b], TradesInRange(formattedTrades, D_rrRanges[b]))]

\* The reduce callback of the Dashboard's hourlyGroups and pairGroups on the
\* group of the trade.
D_Step(data, trade) ==
  [pnl   |-> IF trade.outcome = "Win" /\ Truthy(trade.reward)
               THEN Plus(data.pnl, Val(trade.reward[1]))
             ELSE IF trade.outcome = "Loss" /\ Truthy(trade.risk)
               THEN Minus(data.pnl, Val(trade.risk[1]))
             ELSE data.pnl,
   wins  |-> data.wins
               + (IF trade.outcome = "Win" /\ Truthy(trade.reward) THEN 1 ELSE 0),
   count |-> data.count + 1]

\* One callback of the hourlyGroups or the pairGroups reduce.
D_Put(acc, k, trade, proto) ==
  IF k \in proto THEN acc
  ELSE GroupPut(acc, k,
                D_Step(GroupGet(acc, k, [pnl |-> NInt(0), wins |-> 0, count |-> 0]), trade))

\* formattedTrades.reduce((acc, trade) => ..., {}), keys[i] the key of
\* trade i.
D_groups(formattedTrades, keys, proto) ==
  LET F[i \in 0..Len(formattedTrades)] ==
        IF i = 0 THEN << >> ELSE D_Put(F[i - 1], keys[i], formattedTrades[i], proto)
  IN  F[Len(formattedTrades)]

D_hourlyGroups(formattedTrades) ==
  D_groups(formattedTrades, [i \in 1..Len(formattedTrades) |-> HourOf(formattedTrades[i])],
           {})

\* Object.entries(hourlyGroups).map(([hour, data]) => ({ hour:
\* parseInt(hour), pnl, winRate, count })).filter(h => h.count > 0): the
\* keys, all array indices, come in ascending order.
D_hourEntries(groups, keys) ==
  Filter([i \in 1..Len(keys) |->
            [hour |-> keys[i], pnl |-> groups[keys[i]].pnl,
             winRate |-> Times100(JsDiv(groups[keys[i]].wins, groups[keys[i]].count)),
             count |-> groups[keys[i]].count]],
         { i \in 1..Len(keys) : groups[keys[i]].count > 0 })

D_profitableHours(formattedTrades) ==
  SortByPnl(D_hourEntries(D_hourlyGroups(formattedTrades),
                          Ascending({ HourOf(formattedTrades[i]) :
                                      i \in 1..Len(formattedTrades) })))

D_pairGroups(formattedTrades) ==
  D_groups(formattedTrades, [i \in 1..Len(formattedTrades) |-> PairOf(formattedTrades[i])],
           Inherited)

\* Object.entries(pairGroups).map(([pair, data]) => ({ pair, pnl, winRate,
\* count })), the keys of the object being `keys` in their order.
D_pairEntries(groups, keys) ==
  [i \in 1..Len(keys) |->
     [pair |-> keys[i], pnl |-> groups[keys[i]].pnl,
      winRate |-> Times100(JsDiv(groups[keys[i]].wins, groups[keys[i]].count)),
      count |-> groups[keys[i]].count]]

D_profitablePairs(formattedTrades) ==
  SortByPnl(D_pairEntries(D_pairGroups(formattedTrades),
                          OwnKeys(FirstSeen([i \in 1..Len(formattedTrades) |->
                                               PairOf(formattedTrades[i])]))))

\* arr.filter(t => t.risk_reward_ratio < 1.5).length
CountLowRR(arr) ==
  Cardinality({ i \in 1..Len(arr) : ToNumber(arr[i].risk_reward_ratio) < 150 })

\* arr.filter(t => t.risk_reward_ratio >= 2).length
CountHighRR(arr) ==
  Cardinality({ i \in 1..Len(arr) : ToNumber(arr[i].risk_reward_ratio) >= 200 })

\* arr.filter(t => t.setup).length
CountWithSetup(arr) ==
  Cardinality({ i \in 1..Len(arr) : TruthyStr(arr[i].setup) })

\* The losingPatterns list from the losing trades and the first of the
\* profitable sessions.
D_losingPatterns(losingTrades, first) ==
  << [category |-> "Poor R:R",
      value |-> OrZero(Times100(JsDiv(CountLowRR(losingTrades), Len(losingTrades))))],
     [category |-> "No Setup",
      value |-> OrZero(Times100(JsDiv(Len(losingTrades) - CountWithSetup(losingTrades),
                                      Len(losingTrades))))],
     [category |-> "Wrong Session",
      value |-> OrZero(Times(JsDiv(Len(losingTrades) - first.count, Len(losingTrades)),
                             30))] >>

\* The winningPatterns list from the winning trades and the first of the
\* profitable sessions.
D_winningPatterns(winningTrades, first) ==
  << [category |-> "Good R:R",
      value |-> OrZero(Times100(JsDiv(CountHighRR(winningTrades), Len(winningTrades))))],
     [category |-> "Has Setup",
      value |-> OrZero(Times100(JsDiv(CountWithSetup(winningTrades), Len(winningTrades))))],
     [category |-> "Best Session",
      value |-> OrZero(first.winRate)] >>

\* (best, curr) => curr.pnl > best.pnl ? curr : best
D_Better(best, curr) == IF NumLess(best.pnl, curr.pnl) THEN curr ELSE best

\* profitableRR.reduce((best, curr) => curr.pnl > best.pnl ? curr : best)
D_bestRR(profitableRR) ==
  LET F[i \in 1..Len(profitableRR)] ==
        IF i = 1 THEN profitableRR[1] ELSE D_Better(F[i - 1], profitableRR[i])
  IN  F[Len(profitableRR)]

\* losingByLowRR / losingTrades.length > 0.5
MostlyLowRR(share) == share.d # 0 /\ 2 * share.n > share.d

\* The recommendations, each by its subject instead of its sentence.
D_recommendations(sessions, bestRR, hours, pairs, losingTrades) ==
  (IF Len(sessions) > 0 THEN << [about |-> "session", key |-> sessions[1].session] >> ELSE << >>)
  \o (IF bestRR.count > 0 THEN << [about |-> "rr", key |-> bestRR.range] >> ELSE << >>)
  \o (IF Len(hours) > 0 THEN << [about |-> "hour", hour |-> hours[1].hour] >> ELSE << >>)
  \o (IF Len(pairs) > 0 /\ NumLess(NInt(0), pairs[1].pnl)
        THEN << [about |-> "pair", key |-> pairs[1].pair] >> ELSE << >>)
  \o (IF MostlyLowRR(JsDiv(CountLowRR(losingTrades), Len(losingTrades)))
        THEN << [about |-> "lowrr"] >> ELSE << >>)

\* formattedTrades.filter(t => t.outcome === outcome)
WithOutcome(arr, outcome) ==
  Filter(arr, { i \in 1..Len(arr) : arr[i].outcome = outcome })

\* The object passed to setDashboardData, from the lists computed before it.
D_data(formattedTrades, profitableSessions, profitableRR, profitableHours, profitablePairs) ==
  [profitableSessions |-> profitableSessions,
   profitableRR       |-> profitableRR,
   profitableHours    |-> profitableHours,
   profitablePairs    |-> profitablePairs,
   losingPatterns     |-> D_losingPatterns(WithOutcome(formattedTrades, "Loss"),
                                           profitableSessions[1]),
   winningPatterns    |-> D_winningPatterns(WithOutcome(formattedTrades, "Win"),
                                            profitableSessions[1]),
   recommendations    |-> D_recommendations(profitableSessions, D_bestRR(profitableRR),
                                            profitableHours, profitablePairs,
                                            WithOutcome(formattedTrades, "Loss"))]

\* The value fetchDashboardData passes to setDashboardData for the rows the
\* query returned.
dashboardDataOf(trades) ==
  IF Len(trades) = 0 THEN Null
  ELSE Some(D_data(trades, D_profitableSessions(trades), D_profitableRR(trades),
                   D_profitableHours(trades), D_profitablePairs(trades)))

\* ----------------------------------------------- Index.fetchDashboardStats

\* x || 0 on a sum of amounts: 0 is falsy.
SumOrZero(x) == IF IsZero(x) THEN NInt(0) ELSE x

\* trades?.reduce(...) || 0
I_totalPnL(trades) == SumOrZero(A_totalPnL(trades))

\* statsOf with winRate computed without the totalTrades > 0 guard.
statsOfUnguarded(trades, recentTrades) ==
  Some([totalTrades  |-> Len(trades),
        winRate      |-> Times100(JsDiv(CountWins(trades), Len(trades))),
        totalPnL     |-> I_totalPnL(trades),
        recentTrades |-> recentTrades])

\* The value fetchDashboardStats passes to setStats; recentTrades is the
\* number of rows whose created_at lies in the last seven days.
statsOf(trades, recentTrades) ==
  Some([totalTrades  |-> Len(trades),
        winRate      |-> IF Len(trades) > 0
                           THEN Times100(JsDiv(CountWins(trades), Len(trades)))
                           ELSE JsDiv(0, 1),
        totalPnL     |-> I_totalPnL(trades),
        recentTrades |-> recentTrades])

\* ------------------------------------------ analyze-trades (edge function)

\* trades.map(t => ({ setup: t.setup, outcome })).filter(t => t.setup)
E_setups(mapped) ==
  Filter(mapped, { i \in 1..Len(mapped) : TruthyStr(mapped[i].setup) })

\* trades.map(t => ({ rr: ..., outcome })).filter(t => t.rr !== null)
E_rrRatios(mapped) ==
  Filter(mapped, { i \in 1..Len(mapped) : mapped[i].rr # Null })

\* The tradeStats object the function builds from the request's trades.
\* reward / risk is held as an exact fraction.
tradeStatsOf(trades) ==
  [totalTrades |-> Len(trades),
   wins        |-> Cardinality({ i \in 1..Len(trades) : trades[i].outcome = "Win" }),
   losses      |-> Cardinality({ i \in 1..Len(trades) : trades[i].outcome = "Loss" }),
   breakevens  |-> Cardinality({ i \in 1..Len(trades) : trades[i].outcome = "Breakeven" }),
   pairs       |-> [i \in 1..Len(trades) |->
                      [pair |-> trades[i].pair, outcome |-> trades[i].outcome]],
   sessions    |-> [i \in 1..Len(trades) |->
                      [session |-> trades[i].session_name, outcome |-> trades[i].outcome]],
   setups      |-> E_setups([i \in 1..Len(trades) |->
                               [setup |-> trades[i].setup, outcome |-> trades[i].outcome]]),
   rrRatios    |-> E_rrRatios([i \in 1..Len(trades) |->
                     [rr |-> IF Truthy(trades[i].risk) /\ Truthy(trades[i].reward)
                               THEN Some(JsDiv(trades[i].reward[1], trades[i].risk[1]))
                               ELSE Null,
                      outcome |-> trades[i].outcome]]),
   hours       |-> [i \in 1..Len(trades) |->
                      [hour |-> trades[i].hour, outcome |-> trades[i].outcome]]]

\* The statuses the text-generation endpoint answers with in the model.
UpstreamStatuses == {200, 429, 402, 500, 503}

\* The error of a response body: its text and, for `AI API error: ${status}`,
\* the status the text ends with.
Err(text, code) == [text |-> text, code |-> code]

\* A handler that validates nothing: a body without trades fails like any
\* other exception of the handler.
analyzeTradesUnvalidated(body, key, upstream) ==
  IF body = Null \/ Len(body[1]) = 0
    THEN [status |-> 500, error |-> Err("Unknown error", Null),
          tradeStats |-> Null, called |-> FALSE]
  ELSE IF ~key
    THEN [status |-> 500, error |-> Err("LOVABLE_API_KEY not configured", Null),
          tradeStats |-> Null, called |-> FALSE]
  ELSE [status |-> IF upstream \in {429, 402, 200} THEN upstream ELSE 500,
        error |-> Err("", IF upstream \in {429, 402, 200} THEN Null ELSE Some(upstream)),
        tradeStats |-> Some(tradeStatsOf(body[1])), called |-> TRUE]

\* A handler with one branch for every answer that is not ok: the throw.
analyzeTradesOneFailure(body, key, upstream) ==
  IF body = Null \/ Len(body[1]) = 0
    THEN [status |-> 400, error |-> Err("No trade data provided", Null),
          tradeStats |-> Null, called |-> FALSE]
  ELSE IF ~key
    THEN [status |-> 500, error |-> Err("LOVABLE_API_KEY not configured", Null),
          tradeStats |-> Null, called |-> FALSE]
  ELSE IF upstream \notin 200..299
    THEN [status |-> 500, error |-> Err("AI API error: ", Some(upstream)),
          tradeStats |-> Some(tradeStatsOf(body[1])), called |-> TRUE]
  ELSE [status |-> 200, error |-> Err("", Null),
        tradeStats |-> Some(tradeStatsOf(body[1])), called |-> TRUE]

\* A handler whose throw names no status.
analyzeTradesNoCode(body, key, upstream) ==
  IF body = Null \/ Len(body[1]) = 0
    THEN [status |-> 400, error |-> Err("No trade data provided", Null),
          tradeStats |-> Null, called |-> FALSE]
  ELSE IF ~key
    THEN [status |-> 500, error |-> Err("LOVABLE_API_KEY not configured", Null),
          tradeStats |-> Null, called |-> FALSE]
  ELSE IF upstream = 429
    THEN [status |-> 429,
          error |-> Err("Rate limit exceeded. Please try again later.", Null),
          tradeStats |-> Some(tradeStatsOf(body[1])), called |-> TRUE]
  ELSE IF upstream = 402
    THEN [status |-> 402,
          error |-> Err("Payment required. Please add credits to your workspace.", Null),
          tradeStats |-> Some(tradeStatsOf(body[1])), called |-> TRUE]
  ELSE IF upstream \notin 200..299
    THEN [status |-> 500, error |-> Err("AI API error: ", Null),
          tradeStats |-> Some(tradeStatsOf(body[1])), called |-> TRUE]
  ELSE [status |-> 200, error |-> Err("", Null),
        tradeStats |-> Some(tradeStatsOf(body[1])), called |-> TRUE]

\* A handler that reads the key before it looks at the body.
analyzeTradesKeyFirst(body, key, upstream) ==
  IF ~key
    THEN [status |-> 500, error |-> Err("LOVABLE_API_KEY not configured", Null),
          tradeStats |-> Null, called |-> FALSE]
  ELSE IF body = Null \/ Len(body[1]) = 0
    THEN [status |-> 400, error |-> Err("No trade data provided", Null),
          tradeStats |-> Null, called |-> FALSE]
  ELSE [status |-> IF upstream \in {429, 402, 200} THEN upstream ELSE 500,
        error |-> Err("", IF upstream \in {429, 402, 200} THEN Null ELSE Some(upstream)),
        tradeStats |-> Some(tradeStatsOf(body[1])), called |-> TRUE]

\* The handler of one POST: `body` is the request's `trades` (Null when the
\* body has none), `key` whether LOVABLE_API_KEY is set, `upstream` the
\* status the endpoint answers with if it is called.
analyzeTrades(body, key, upstream) ==
  IF body = Null \/ Len(body[1]) = 0
    THEN [status |-> 400, error |-> Err("No trade data provided", Null),
          tradeStats |-> Null, called |-> FALSE]
  ELSE IF ~key
    THEN [status |-> 500, error |-> Err("LOVABLE_API_KEY not configured", Null),
          tradeStats |-> Null, called |-> FALSE]
  ELSE IF upstream = 429
    THEN [status |-> 429,
          error |-> Err("Rate limit exceeded. Please try again later.", Null),
          tradeStats |-> Some(tradeStatsOf(body[1])), called |-> TRUE]
  ELSE IF upstream = 402
    THEN [status |-> 402,
          error |-> Err("Payment required. Please add credits to your workspace.", Null),
          tradeStats |-> Some(tradeStatsOf(body[1])), called |-> TRUE]
  ELSE IF upstream \notin 200..299
    THEN [status |-> 500, error |-> Err("AI API error: ", Some(upstream)),
          tradeStats |-> Some(tradeStatsOf(body[1])), called |-> TRUE]
  ELSE [status |-> 200, error |-> Err("", Null),
        tradeStats |-> Some(tradeStatsOf(body[1])), called |-> TRUE]

\* An aggregation that reversed its input where it stands.
AfterAggregationReversed(arr) == [i \in 1..Len(arr) |-> arr[Len(arr) + 1 - i]]

\* The array arr once an aggregation has run on it.  filter, map and reduce
\* build new values and leave their receiver and its elements as they are;
\* every sort of the aggregations has for receiver an array that map built,
\* and every assignment an object the aggregation created.
AfterAggregation(arr) == arr

\* TradeDetailsDialog's rrRatio for the trade it shows: Null for 'N/A', else
\* the quotient as toFixed(2) prints it, in hundredths (the decimal nearest
\* to the exact quotient, halves away from zero).
rrRatio(trade) ==
  IF Truthy(trade.risk) /\ Truthy(trade.reward) /\ trade.risk[1] > 0
    THEN Some((IF trade.reward[1] < 0 THEN -1 ELSE 1)
              * ((200 * Abs(trade.reward[1]) + trade.risk[1]) \div (2 * trade.risk[1])))
    ELSE Null

\* ------------------------------------------------- rendering of the text

\* The characters /\s/ matches, of those a text of the model is made of.
Whitespace == {" "}

\* text.split('\n'): the pieces between the line feeds, empty ones included.
SplitLines(text) ==
  LET breaks == { i \in 1..Len(text) : text[i] = "\n" }
      n == Cardinality(breaks) + 1
      B[k \in 0..n] ==
        IF k = 0 THEN 0
        ELSE IF k = n THEN Len(text) + 1
        ELSE CHOOSE i \in breaks : Cardinality({ j \in breaks : j < i }) = k - 1
  IN  [k \in 1..n |-> SubSeq(text, B[k - 1] + 1, B[k] - 1)]

\* line without its longest prefix of characters in chars: line.replace of
\* a pattern /^[chars]*/.
DropLeading(line, chars) ==
  SubSeq(line,
         Cardinality({ i \in 1..Len(line) : \A j \in 1..i : line[j] \in chars }) + 1,
         Len(line))

\* line.trim()
Trim(line) ==
  LET kept == { i \in 1..Len(line) : line[i] \notin Whitespace }
  IN  IF kept = {} THEN << >>
      ELSE SubSeq(line, CHOOSE i \in kept : \A j \in kept : i <= j,
                        CHOOSE i \in kept : \A j \in kept : j <= i)

\* line.startsWith(c) for a character c.
StartsWith(line, c) == Len(line) > 0 /\ line[1] = c

\* The element a line is rendered as whatever is left of it after trimming
\* is kept or not: a paragraph for every line that is not empty.
renderLineUntrimmed(line) ==
  IF StartsWith(line, "#")
    THEN [tag |-> "h", level |-> 2, text |-> DropLeading(line, {"#"})]
  ELSE IF StartsWith(Trim(line), "-") \/ StartsWith(Trim(line), "*")
    THEN [tag |-> "li", level |-> 0, text |-> line]
  ELSE IF Len(line) > 0
    THEN [tag |-> "p", level |-> 0, text |-> line]
  ELSE Null

\* The callback of analysis.split('\n').map: the element one line is
\* rendered as, Null for the null React renders as nothing.  A heading h2 to
\* h6 has level 2 to 6.
renderLine(line) ==
  IF StartsWith(line, "#")
    THEN [tag |-> "h",
          level |-> IF Len(line) - Len(DropLeading(line, {"#"})) + 1 < 6
                      THEN Len(line) - Len(DropLeading(line, {"#"})) + 1 ELSE 6,
          text |-> DropLeading(DropLeading(line, {"#"}), Whitespace)]
  ELSE IF StartsWith(Trim(line), "-") \/ StartsWith(Trim(line), "*")
    THEN [tag |-> "li", level |-> 0,
          text |-> DropLeading(line, Whitespace \cup {"-", "*"})]
  ELSE IF Len(Trim(line)) > 0
    THEN [tag |-> "p", level |-> 0, text |-> line]
  ELSE Null

\* What AIInsights renders of its analysis state, line by line: nothing
\* while the state is falsy.
renderAnalysis(shown) ==
  IF shown = Null \/ Len(shown[1]) = 0 THEN << >>
  ELSE [i \in 1..Len(SplitLines(shown[1])) |-> renderLine(SplitLines(shown[1])[i])]

\* ------------------------------------------------------ the trades query

\* The day Analytics is mounted; a trade_datetime is a day.
Today == 3

\* A query whose date range leaves out its upper bound.
QueryTradesBefore(table, uid, q) ==
  LET hits == { t \in table :
                  /\ t.user_id = uid
                  /\ (q.from # Null /\ q.to # Null) =>
                       (q.from[1] <= t.trade_datetime /\ t.trade_datetime < q.to[1])
                  /\ q.pair # "all" => t.pair = q.pair
                  /\ q.session # "all" => t.session_name = q.session }
  IN  [k \in 1..Cardinality(hits) |->
         CHOOSE t \in hits :
           Cardinality({ u \in hits : u.trade_datetime > t.trade_datetime }) = k - 1]

\* The rows the query of Analytics.fetchTrades returns from the table, for
\* the user uid and the filters q the call was made with: eq user_id, gte
\* and lte when both bounds are set, eq pair and eq session name unless
\* 'all', ordered by trade_datetime descending.  Every row of the model has
\* a session, as TradeInput records one with every trade, so the inner join
\* on trading_sessions keeps every row.
QueryTrades(table, uid, q) ==
  LET hits == { t \in table :
                  /\ t.user_id = uid
                  /\ (q.from # Null /\ q.to # Null) =>
                       (q.from[1] <= t.trade_datetime /\ t.trade_datetime <= q.to[1])
                  /\ q.pair # "all" => t.pair = q.pair
                  /\ q.session # "all" => t.session_name = q.session }
  IN  [k \in 1..Cardinality(hits) |->
         CHOOSE t \in hits :
           Cardinality({ u \in hits : u.trade_datetime > t.trade_datetime }) = k - 1]

\* ------------------------------------------- the table and the bucket

\* A policy that lets every signed-in user through.
OwnRowSignedIn(uid, row) == uid # Null

\* auth.uid() = user_id, the expression of the four policies on
\* public.trades, for the user uid of the statement (Null when anonymous);
\* a policy FOR UPDATE with USING alone checks the new row with it too.
OwnRow(uid, row) == uid # Null /\ uid[1] = row.user_id

\* SELECT on public.trades by the user uid: the rows the policy FOR SELECT
\* lets through.
SelectTrades(table, uid) == { t \in table : OwnRow(uid, t) }

\* 5 * 1024 * 1024
MaxFileSize == 5242880

\* The files handed to uploadFile in the model: the type is a list of the
\* parts of the MIME type, empty when the browser knows none.
Files == [type : {<< "image", "/", "png" >>, << "application", "/", "pdf" >>,
                  << "image" >>, << >>},
          size : {MaxFileSize - 1, MaxFileSize, MaxFileSize + 1}]

\* ------------------------------------------------------------------ state

VARIABLES
  rows,           \* the rows the page's query returns, in the returned order
  page,           \* the mounted route: "Index", "Analytics" or "Dashboard"
  apiKey,         \* LOVABLE_API_KEY is set in the function's environment
  content,        \* the text the endpoint generates, as a sequence of characters
  user,           \* the signed-in user: Null or Some(id)
  store,          \* the rows of public.trades
  filters,        \* Analytics: dateRange, selectedPair and selectedSession
  inflight,       \* Analytics: the queries of fetchTrades not yet answered
  fetched,        \* Analytics: the query answered last, Null before the first
  changes,        \* Analytics: the filter changes so far
  form,           \* TradeInput: the values entered, Null while the form is blank
  screenshotUrl,  \* TradeInput: Null for '', or Some(url)
  inserting,      \* TradeInput: the insert awaiting its answer, Null if none
  isUploading,    \* PasteImageUpload: the uploading flag
  uploads,        \* PasteImageUpload: the files whose upload awaits its answer
  objects,        \* the objects of the bucket trade-screenshots
  actor,          \* the user of the last statement on public.trades
  apiCalls,       \* the statements sent to public.trades outside the pages
  loading,        \* the mounted page's loading flag
  errorLogged,    \* the mounted page's fetch threw: console.error was called
  toast,          \* the title of the last toast, Null if none
  trades,         \* Analytics: the trades state
  analytics,      \* Analytics: the analytics state, Null or Some(data)
  dashboardData,  \* Dashboard: Null or Some(data)
  stats,          \* Index: Null or Some(stats)
  aggregated,     \* the list the last aggregation ran on, as it is after it
  isLoading,      \* AIInsights: the request is pending
  analysis,       \* AIInsights: Null or Some(text) of the last analysis
  loadingAI,      \* Dashboard: the request is pending
  aiInsights,     \* Dashboard: the insights text, Null while it is falsy
  clicks,         \* the runs of generateInsights and getAIInsights so far
  invokes,        \* the calls of supabase.functions.invoke so far
  aiRequest,      \* the POST to analyze-trades in flight: Null or Some(body)
  aiResponse,     \* its response on the way back: Null or Some(response)
  serving,        \* the request the function serves or served last
  awaiting,       \* the function awaits the endpoint's answer to its fetch
  upstream,       \* the endpoint's answer in this execution, Null if none
  fetches,        \* the fetches to the endpoint so far
  tradeStats      \* the tradeStats the function last built, Null if none

vars == << rows, page, apiKey, content, user, store, filters, inflight, fetched,
          changes, form, screenshotUrl, inserting, isUploading, uploads, objects, actor,
          apiCalls, loading, errorLogged, toast, trades, analytics,
          dashboardData, stats, aggregated, isLoading, analysis, loadingAI,
          aiInsights, clicks, invokes, aiRequest, aiResponse, serving, awaiting,
          upstream, fetches, tradeStats >>

pageVars == << trades, analytics, dashboardData, stats >>

aiVars == << isLoading, analysis, loadingAI, aiInsights, clicks, invokes, aiRequest,
            aiResponse, serving, awaiting, upstream, fetches, tradeStats >>

Pages == {"Index", "Analytics", "Dashboard"}

\* A page is mounted: its state is as useState sets it.  TradeInput starts
\* with loading false, the other pages with loading true, their first fetch
\* under way; the function is idle.
Mounted ==
  /\ loading = (page # "TradeInput")
  /\ screenshotUrl = Null
  /\ inserting = Null
  /\ isUploading = FALSE
  /\ uploads = << >>
  /\ objects = {}
  /\ actor = Null
  /\ apiCalls = 0
  /\ filters = [from |-> Some(Today - 2), to |-> Some(Today),
                pair |-> "all", session |-> "all"]
  /\ fetched = Null
  /\ changes = 0
  /\ errorLogged = FALSE
  /\ toast = Null
  /\ trades = << >>
  /\ analytics = Null
  /\ dashboardData = Null
  /\ stats = Null
  /\ aggregated = Null
  /\ isLoading = FALSE
  /\ analysis = Null
  /\ loadingAI = FALSE
  /\ aiInsights = Null
  /\ clicks = 0
  /\ invokes = 0
  /\ aiRequest = Null
  /\ aiResponse = Null
  /\ serving = Null
  /\ awaiting = FALSE
  /\ upstream = Null
  /\ fetches = 0
  /\ tradeStats = Null

Init ==
  /\ rows \in ListsUpTo(TradeRows, MaxTrades)
  /\ page \in Pages
  /\ apiKey = TRUE
  /\ content = << "a" >>
  /\ user = Some("u1")
  /\ store = {}
  /\ inflight = << >>
  /\ form = Null
  /\ Mounted

\* Analytics.fetchTrades from the query's answer on: on an error nothing but
\* loading changes; otherwise setTrades and calculateAnalytics, both on the
\* one array formattedTrades.
FetchTrades ==
  /\ page = "Analytics"
  /\ user # Null
  /\ loading
  /\ \E error \in BOOLEAN :
       /\ errorLogged' = error
       /\ IF error
            THEN UNCHANGED << trades, analytics, aggregated >>
            ELSE /\ trades' = AfterAggregation(rows)
                 /\ analytics' = calculateAnalytics(rows)
                 /\ aggregated' = Some(AfterAggregation(rows))
  /\ loading' = FALSE
  /\ UNCHANGED << rows, page, apiKey, content, user, store, filters, inflight, fetched,
                  changes, form, screenshotUrl, inserting, isUploading, uploads, objects,
                  actor, apiCalls, toast, dashboardData, stats >>
  /\ UNCHANGED aiVars

\* Dashboard.fetchDashboardData from the query's answer on; the aggregation
\* runs on a list that is not empty.
FetchDashboardData ==
  /\ page = "Dashboard"
  /\ user # Null
  /\ loading
  /\ \E error \in BOOLEAN :
       /\ errorLogged' = error
       /\ IF error
            THEN /\ toast' = Some("Error")
                 /\ UNCHANGED << dashboardData, aggregated >>
            ELSE /\ dashboardData' = dashboardDataOf(rows)
                 /\ aggregated' = IF Len(rows) = 0 THEN aggregated
                                  ELSE Some(AfterAggregation(rows))
                 /\ UNCHANGED toast
  /\ loading' = FALSE
  /\ UNCHANGED << rows, page, apiKey, content, user, store, filters, inflight, fetched,
                  changes, form, screenshotUrl, inserting, isUploading, uploads, objects,
                  actor, apiCalls, trades, analytics, stats >>
  /\ UNCHANGED aiVars

\* Index.fetchDashboardStats from the query's answer on.
FetchDashboardStats ==
  /\ page = "Index"
  /\ user # Null
  /\ loading
  /\ \E error \in BOOLEAN, recent \in 0..Len(rows) :
       /\ errorLogged' = error
       /\ IF error
            THEN UNCHANGED stats
            ELSE stats' = statsOf(rows, recent)
  /\ loading' = FALSE
  /\ UNCHANGED << rows, page, apiKey, content, user, store, filters, inflight, fetched,
                  changes, form, screenshotUrl, inserting, isUploading, uploads, objects,
                  actor, apiCalls, toast, trades, analytics, dashboardData, aggregated >>
  /\ UNCHANGED aiVars

\* The most clicks on the two insight buttons in a behaviour.
MaxClicks == 2

\* AIInsights.generateInsights up to the invoke, for the trades the
\* component was given: the title of the toast it shows (Null if none) and
\* the body it invokes the function with (Null if it returns without).
generateInsights(tradesProp) ==
  IF Len(tradesProp) = 0
    THEN [toast |-> Some("No Data"), invoke |-> Null]
    ELSE [toast |-> Null, invoke |-> Some(Some(tradesProp))]

\* A click on the button of AIInsights.  The component is rendered when
\* Analytics has analytics to show; its button is disabled while the request
\* is pending and while there are no trades.
GenerateInsights ==
  /\ page = "Analytics"
  /\ ~loading
  /\ analytics # Null
  /\ ~isLoading
  /\ Len(trades) # 0
  /\ clicks < MaxClicks
  /\ clicks' = clicks + 1
  /\ IF generateInsights(trades).invoke = Null
       THEN /\ toast' = generateInsights(trades).toast
            /\ UNCHANGED << isLoading, aiRequest, invokes >>
       ELSE /\ isLoading' = TRUE
            /\ aiRequest' = generateInsights(trades).invoke
            /\ invokes' = invokes + 1
            /\ UNCHANGED toast
  /\ UNCHANGED << rows, page, apiKey, content, user, store, filters, inflight, fetched,
                  changes, form, screenshotUrl, inserting, isUploading, uploads, objects,
                  actor, apiCalls, loading, errorLogged, aggregated, analysis,
                  loadingAI, aiInsights, aiResponse, serving, awaiting, upstream,
                  fetches, tradeStats >>
  /\ UNCHANGED pageVars

\* Dashboard.getAIInsights up to the invoke: the body carries sessions,
\* rrData, hours and pairs, and no trades.  The button is rendered while
\* aiInsights is falsy and disabled while the request is pending.
GetAIInsights ==
  /\ page = "Dashboard"
  /\ user # Null
  /\ ~loading
  /\ dashboardData # Null
  /\ aiInsights = Null
  /\ ~loadingAI
  /\ clicks < MaxClicks
  /\ clicks' = clicks + 1
  /\ loadingAI' = TRUE
  /\ aiRequest' = Some(Null)
  /\ invokes' = invokes + 1
  /\ UNCHANGED << rows, page, apiKey, content, user, store, filters, inflight, fetched,
                  changes, form, screenshotUrl, inserting, isUploading, uploads, objects,
                  actor, apiCalls, loading, errorLogged, toast, aggregated, isLoading,
                  analysis, aiInsights, aiResponse, serving, awaiting, upstream,
                  fetches, tradeStats >>
  /\ UNCHANGED pageVars

\* The analyze-trades function serves the request in flight, up to its
\* response if it returns before the fetch (which does not depend on what
\* the endpoint would answer), and up to the fetch otherwise.
AnalyzeTrades ==
  /\ aiRequest # Null
  /\ ~awaiting
  /\ serving' = aiRequest
  /\ upstream' = Null
  /\ tradeStats' = analyzeTrades(aiRequest[1], apiKey, 200).tradeStats
  /\ IF analyzeTrades(aiRequest[1], apiKey, 200).called
       THEN /\ awaiting' = TRUE
            /\ fetches' = fetches + 1
            /\ aggregated' = Some(AfterAggregation(aiRequest[1][1]))
            /\ UNCHANGED aiResponse
       ELSE /\ aiResponse' = Some([status |-> analyzeTrades(aiRequest[1], apiKey, 200).status,
                                   error  |-> analyzeTrades(aiRequest[1], apiKey, 200).error])
            /\ UNCHANGED << awaiting, fetches, aggregated >>
  /\ aiRequest' = Null
  /\ UNCHANGED << rows, page, apiKey, content, user, store, filters, inflight, fetched,
                  changes, form, screenshotUrl, inserting, isUploading, uploads, objects,
                  actor, apiCalls, loading, errorLogged, toast, isLoading, analysis,
                  loadingAI, aiInsights, clicks, invokes >>
  /\ UNCHANGED pageVars

\* A function that fetches again when the endpoint's answer is not ok.
AnalyzeTradesDoneRetrying ==
  /\ awaiting
  /\ \E s \in UpstreamStatuses :
       /\ upstream' = Some(s)
       /\ IF s \in 200..299 \/ fetches >= MaxClicks + 1
            THEN /\ aiResponse' = Some([status |-> analyzeTrades(serving[1], apiKey, s).status,
                                        error  |-> analyzeTrades(serving[1], apiKey, s).error])
                 /\ awaiting' = FALSE
                 /\ UNCHANGED fetches
            ELSE /\ fetches' = fetches + 1
                 /\ UNCHANGED << aiResponse, awaiting >>
  /\ UNCHANGED << rows, page, apiKey, content, user, store, filters, inflight, fetched,
                  changes, form, screenshotUrl, inserting, isUploading, uploads, objects,
                  actor, apiCalls, loading, errorLogged, toast, aggregated, isLoading,
                  analysis, loadingAI, aiInsights, clicks, invokes, aiRequest, serving,
                  tradeStats >>
  /\ UNCHANGED pageVars

\* The function from the endpoint's answer to its response.
AnalyzeTradesDone ==
  /\ awaiting
  /\ \E s \in UpstreamStatuses :
       /\ upstream' = Some(s)
       /\ aiResponse' = Some([status |-> analyzeTrades(serving[1], apiKey, s).status,
                              error  |-> analyzeTrades(serving[1], apiKey, s).error])
  /\ awaiting' = FALSE
  /\ UNCHANGED << rows, page, apiKey, content, user, store, filters, inflight, fetched,
                  changes, form, screenshotUrl, inserting, isUploading, uploads, objects,
                  actor, apiCalls, loading, errorLogged, toast, aggregated, isLoading,
                  analysis, loadingAI, aiInsights, clicks, invokes, aiRequest, serving,
                  fetches, tradeStats >>
  /\ UNCHANGED pageVars

\* AIInsights.generateInsights from the invoke's answer on: a status outside
\* 2xx is an error of the invoke.
InsightsDone ==
  /\ page = "Analytics"
  /\ aiResponse # Null
  /\ IF aiResponse[1].status = 200
       THEN /\ analysis' = Some(content)
            /\ toast' = Some("Analysis Complete")
       ELSE /\ toast' = Some("Error")
            /\ UNCHANGED analysis
  /\ isLoading' = FALSE
  /\ aiResponse' = Null
  /\ UNCHANGED << rows, page, apiKey, content, user, store, filters, inflight, fetched,
                  changes, form, screenshotUrl, inserting, isUploading, uploads, objects,
                  actor, apiCalls, loading, errorLogged, aggregated, loadingAI,
                  aiInsights, clicks, invokes, aiRequest, serving, awaiting, upstream,
                  fetches, tradeStats >>
  /\ UNCHANGED pageVars

\* Dashboard.getAIInsights from the invoke's answer on: data.insights of a
\* response that carries { analysis } is undefined.
GetAIInsightsDone ==
  /\ page = "Dashboard"
  /\ aiResponse # Null
  /\ IF aiResponse[1].status = 200
       THEN /\ aiInsights' = Null
            /\ UNCHANGED toast
       ELSE /\ toast' = Some("Error")
            /\ UNCHANGED aiInsights
  /\ loadingAI' = FALSE
  /\ aiResponse' = Null
  /\ UNCHANGED << rows, page, apiKey, content, user, store, filters, inflight, fetched,
                  changes, form, screenshotUrl, inserting, isUploading, uploads, objects,
                  actor, apiCalls, loading, errorLogged, aggregated, isLoading,
                  analysis, clicks, invokes, aiRequest, serving, awaiting, upstream,
                  fetches, tradeStats >>
  /\ UNCHANGED pageVars

Next == FetchTrades \/ FetchDashboardData \/ FetchDashboardStats

Spec == Init /\ [][Next]_vars

\* Rows for the insight pipeline: every result on one classification.
InsightRows ==
  { Row([pair |-> "EURUSD", session_name |-> "London", hour |-> 9,
         setup |-> Some("Breakout")], r) : r \in Results }

MaxInsightTrades == 2

InitInsights ==
  /\ rows \in ListsUpTo(InsightRows, MaxInsightTrades)
  /\ page \in {"Analytics", "Dashboard"}
  /\ apiKey \in BOOLEAN
  /\ content = << "a" >>
  /\ user = Some("u1")
  /\ store = {}
  /\ inflight = << >>
  /\ form = Null
  /\ Mounted

NextInsights ==
  \/ FetchTrades
  \/ FetchDashboardData
  \/ GenerateInsights
  \/ GetAIInsights
  \/ AnalyzeTrades
  \/ AnalyzeTradesDone
  \/ InsightsDone
  \/ GetAIInsightsDone

SpecInsights == InitInsights /\ [][NextInsights]_vars

\* The characters of the generated texts of the model.
Chars == {"#", "-", "*", " ", "a", "\n"}

MaxTextLen == 3

\* Analytics with one trade, and any text for the endpoint to generate.
InitRender ==
  /\ rows \in ListsUpTo(InsightRows, 1)
  /\ Len(rows) = 1
  /\ page = "Analytics"
  /\ apiKey = TRUE
  /\ content \in ListsUpTo(Chars, MaxTextLen)
  /\ user = Some("u1")
  /\ store = {}
  /\ inflight = << >>
  /\ form = Null
  /\ Mounted

NextRender ==
  \/ FetchTrades
  \/ GenerateInsights
  \/ AnalyzeTrades
  \/ AnalyzeTradesDone
  \/ InsightsDone

SpecRender == InitRender /\ [][NextRender]_vars

\* Rows with every kind of risk and reward the form can record: absent,
\* zero, positive and negative.
RatioRows ==
  { Row([pair |-> "EURUSD", session_name |-> "London", hour |-> 9, setup |-> Null],
        [outcome |-> "Win", risk |-> k, reward |-> w]) :
      k \in {Null, Some(0), Some(10000), Some(-10000)},
      w \in {Null, Some(0), Some(20000), Some(-5000)} }

MaxRatioTrades == 2

InitRatios ==
  /\ rows \in ListsUpTo(RatioRows, MaxRatioTrades)
  /\ Len(rows) > 0
  /\ page = "Analytics"
  /\ apiKey = TRUE
  /\ content = << "a" >>
  /\ user = Some("u1")
  /\ store = {}
  /\ inflight = << >>
  /\ form = Null
  /\ Mounted

SpecRatios == InitRatios /\ [][NextRender]_vars

\* The trades of the journal in the model, of two users, each at its own
\* trade_datetime.
Journal ==
  { [id |-> 1, user_id |-> "u1", trade_datetime |-> 0, pair |-> "EURUSD",
     session_name |-> "London", hour |-> 9, setup |-> Null,
     risk |-> Some(10000), reward |-> Some(20000),
     risk_reward_ratio |-> GeneratedRatio(Some(10000), Some(20000)), outcome |-> "Win", screenshot_url |-> Null],
    [id |-> 2, user_id |-> "u1", trade_datetime |-> 2, pair |-> "GBPUSD",
     session_name |-> "London", hour |-> 14, setup |-> Null,
     risk |-> Some(10000), reward |-> Null,
     risk_reward_ratio |-> GeneratedRatio(Some(10000), Null), outcome |-> "Loss",
     screenshot_url |-> Null],
    [id |-> 3, user_id |-> "u1", trade_datetime |-> 3, pair |-> "EURUSD",
     session_name |-> "Asia", hour |-> 3, setup |-> Null,
     risk |-> Some(10000), reward |-> Some(20000),
     risk_reward_ratio |-> GeneratedRatio(Some(10000), Some(20000)), outcome |-> "Win", screenshot_url |-> Null],
    [id |-> 4, user_id |-> "u2", trade_datetime |-> 1, pair |-> "EURUSD",
     session_name |-> "London", hour |-> 9, setup |-> Null,
     risk |-> Some(10000), reward |-> Some(20000),
     risk_reward_ratio |-> GeneratedRatio(Some(10000), Some(20000)), outcome |-> "Win",
     screenshot_url |-> Null] }

\* The values the filters of the model take.
FilterValues ==
  [from : {Null, Some(2)}, to : {Null, Some(2)},
   pair : {"all", "EURUSD", "GBPUSD"}, session : {"all", "London", "Asia"}]

MaxFilterChanges == 2

\* Analytics is mounted over any table; the fetch of the mount is in flight.
InitFilters ==
  /\ rows = << >>
  /\ page = "Analytics"
  /\ apiKey = TRUE
  /\ content = << "a" >>
  /\ user \in {Some("u1"), Some("u2")}
  /\ store \in SUBSET Journal
  /\ Mounted
  /\ inflight = << filters >>
  /\ form = Null

\* The user sets dateRange, selectedPair or selectedSession to another
\* value, and the effect runs fetchTrades up to its query.
FiltersChanged ==
  /\ page = "Analytics"
  /\ user # Null
  /\ changes < MaxFilterChanges
  /\ changes' = changes + 1
  /\ \E f \in FilterValues :
       /\ f # filters
       /\ \/ f.pair = filters.pair /\ f.session = filters.session
          \/ f.from = filters.from /\ f.to = filters.to /\ f.session = filters.session
          \/ f.from = filters.from /\ f.to = filters.to /\ f.pair = filters.pair
       /\ filters' = f
       /\ inflight' = Append(inflight, f)
  /\ loading' = TRUE
  /\ UNCHANGED << rows, page, apiKey, content, user, store, fetched, errorLogged, toast,
                  aggregated, form, screenshotUrl, inserting, isUploading, uploads,
                  objects, actor, apiCalls >>
  /\ UNCHANGED pageVars
  /\ UNCHANGED aiVars

\* Analytics.fetchTrades from the answer to one of its queries on.
FetchTradesDone ==
  /\ page = "Analytics"
  /\ user # Null
  /\ \E i \in 1..Len(inflight), error \in BOOLEAN :
       /\ inflight' = SubSeq(inflight, 1, i - 1) \o SubSeq(inflight, i + 1, Len(inflight))
       /\ fetched' = Some([query |-> inflight[i], error |-> error])
       /\ errorLogged' = (errorLogged \/ error)
       /\ IF error
            THEN UNCHANGED << rows, trades, analytics, aggregated >>
            ELSE /\ rows' = QueryTrades(store, user[1], inflight[i])
                 /\ trades' = AfterAggregation(QueryTrades(store, user[1], inflight[i]))
                 /\ analytics' = calculateAnalytics(QueryTrades(store, user[1], inflight[i]))
                 /\ aggregated' = Some(AfterAggregation(QueryTrades(store, user[1], inflight[i])))
  /\ loading' = FALSE
  /\ UNCHANGED << page, apiKey, content, user, store, filters, changes, toast,
                  dashboardData, stats, form, screenshotUrl, inserting, isUploading,
                  uploads, objects, actor, apiCalls >>
  /\ UNCHANGED aiVars

NextFilters == FiltersChanged \/ FetchTradesDone

SpecFilters == InitFilters /\ [][NextFilters]_vars

\* The valid entries of the TradeInput form in the model, amounts as
\* parseFloat reads them; the form with its default values is Null.
FormEntries ==
  { [pair |-> "EURUSD", session_name |-> "London", trade_datetime |-> 5, hour |-> 9,
     setup |-> Null, risk |-> Some(10000), reward |-> w, outcome |-> "Win"] :
      w \in {Null, Some(20000)} }

MaxUploads == 2

MaxApiCalls == 2

\* Any page is mounted, for a signed-in user or for none, over a table of
\* two trades or an empty one; Dashboard's and Index's query answers with
\* the rows of the user.
InitApp ==
  /\ page \in Pages \cup {"TradeInput"}
  /\ user \in {Null, Some("u1"), Some("u2")}
  /\ store \in { {}, { t \in Journal : t.id \in {1, 4} } }
  /\ rows = IF user = Null \/ page \notin {"Dashboard", "Index"} THEN << >>
            ELSE QueryTrades(store, user[1],
                             [from |-> Null, to |-> Null, pair |-> "all", session |-> "all"])
  /\ apiKey = TRUE
  /\ content = << "a" >>
  /\ Mounted
  /\ inflight = IF page = "Analytics" /\ user # Null THEN << filters >> ELSE << >>
  /\ form \in IF page = "TradeInput" THEN { Some(e) : e \in FormEntries } ELSE {Null}

\* The effect of Index when nobody is signed in.
SignedOut ==
  /\ page = "Index"
  /\ user = Null
  /\ loading
  /\ loading' = FALSE
  /\ UNCHANGED << rows, page, apiKey, content, user, store, filters, inflight, fetched,
                  changes, form, screenshotUrl, inserting, isUploading, uploads,
                  objects, actor, apiCalls, errorLogged, toast, aggregated >>
  /\ UNCHANGED pageVars
  /\ UNCHANGED aiVars

\* TradeInput.onSubmit up to the insert, run by handleSubmit with the valid
\* values of the form; the button is disabled while loading.
OnSubmit ==
  /\ page = "TradeInput"
  /\ user # Null
  /\ form # Null
  /\ ~loading
  /\ loading' = TRUE
  /\ inserting' = Some([user_id |-> user[1], pair |-> form[1].pair,
                        session_name |-> form[1].session_name,
                        trade_datetime |-> form[1].trade_datetime, hour |-> form[1].hour,
                        setup |-> form[1].setup, risk |-> form[1].risk,
                        reward |-> form[1].reward, outcome |-> form[1].outcome,
                        screenshot_url |-> screenshotUrl])
  /\ UNCHANGED << rows, page, apiKey, content, user, store, filters, inflight, fetched,
                  changes, form, screenshotUrl, isUploading, uploads, objects, actor,
                  apiCalls, errorLogged, toast, aggregated >>
  /\ UNCHANGED pageVars
  /\ UNCHANGED aiVars

\* onSubmit with form.reset() moved into the finally.
OnSubmitDoneResetting ==
  /\ page = "TradeInput"
  /\ inserting # Null
  /\ actor' = user
  /\ \E failure \in BOOLEAN :
       IF failure \/ ~OwnRow(user, inserting[1])
         THEN /\ errorLogged' = TRUE
              /\ toast' = Some("Error")
              /\ form' = Null
              /\ UNCHANGED << store, screenshotUrl >>
         ELSE /\ store' = store \cup
                   { [id |-> 5 + Cardinality({ t \in store : t.id >= 5 }),
                      user_id |-> inserting[1].user_id, pair |-> inserting[1].pair,
                      session_name |-> inserting[1].session_name,
                      trade_datetime |-> inserting[1].trade_datetime,
                      hour |-> inserting[1].hour, setup |-> inserting[1].setup,
                      risk |-> inserting[1].risk, reward |-> inserting[1].reward,
                      risk_reward_ratio |-> GeneratedRatio(inserting[1].risk, inserting[1].reward),
                      outcome |-> inserting[1].outcome,
                      screenshot_url |-> inserting[1].screenshot_url] }
              /\ toast' = Some("Trade Saved")
              /\ form' = Null
              /\ screenshotUrl' = Null
              /\ UNCHANGED errorLogged
  /\ loading' = FALSE
  /\ inserting' = Null
  /\ UNCHANGED << rows, page, apiKey, content, user, filters, inflight, fetched,
                  changes, isUploading, uploads, objects, apiCalls, aggregated >>
  /\ UNCHANGED pageVars
  /\ UNCHANGED aiVars

\* TradeInput.onSubmit from the insert's answer on.  The table takes the
\* row when the policy FOR INSERT passes it and nothing else fails, and
\* gives it its id and its generated ratio.
OnSubmitDone ==
  /\ page = "TradeInput"
  /\ inserting # Null
  /\ actor' = user
  /\ \E failure \in BOOLEAN :
       IF failure \/ ~OwnRow(user, inserting[1])
         THEN /\ errorLogged' = TRUE
              /\ toast' = Some("Error")
              /\ UNCHANGED << store, form, screenshotUrl >>
         ELSE /\ store' = store \cup
                   { [id |-> 5 + Cardinality({ t \in store : t.id >= 5 }),
                      user_id |-> inserting[1].user_id, pair |-> inserting[1].pair,
                      session_name |-> inserting[1].session_name,
                      trade_datetime |-> inserting[1].trade_datetime,
                      hour |-> inserting[1].hour, setup |-> inserting[1].setup,
                      risk |-> inserting[1].risk, reward |-> inserting[1].reward,
                      risk_reward_ratio |-> GeneratedRatio(inserting[1].risk, inserting[1].reward),
                      outcome |-> inserting[1].outcome,
                      screenshot_url |-> inserting[1].screenshot_url] }
              /\ toast' = Some("Trade Saved")
              /\ form' = Null
              /\ screenshotUrl' = Null
              /\ UNCHANGED errorLogged
  /\ loading' = FALSE
  /\ inserting' = Null
  /\ UNCHANGED << rows, page, apiKey, content, user, filters, inflight, fetched,
                  changes, isUploading, uploads, objects, apiCalls, aggregated >>
  /\ UNCHANGED pageVars
  /\ UNCHANGED aiVars

\* uploadFile whose return on a file that is no image skips the finally.
UploadFileReturning ==
  /\ page = "TradeInput"
  /\ Cardinality(objects) + Len(uploads) < MaxUploads
  /\ \E file \in Files :
       IF user = Null
         THEN UNCHANGED << isUploading, uploads, toast >>
       ELSE IF Len(file.type) < 2 \/ SubSeq(file.type, 1, 2) # << "image", "/" >>
         THEN /\ toast' = Some("Invalid File Type")
              /\ isUploading' = TRUE
              /\ UNCHANGED uploads
       ELSE IF file.size > MaxFileSize
         THEN /\ toast' = Some("File Too Large")
              /\ isUploading' = FALSE
              /\ UNCHANGED uploads
       ELSE /\ isUploading' = TRUE
            /\ uploads' = Append(uploads, file)
            /\ UNCHANGED toast
  /\ UNCHANGED << rows, page, apiKey, content, user, store, filters, inflight, fetched,
                  changes, form, screenshotUrl, inserting, objects, actor, apiCalls,
                  loading, errorLogged, aggregated >>
  /\ UNCHANGED pageVars
  /\ UNCHANGED aiVars

\* uploadFile without the check of the size.
UploadFileAnySize ==
  /\ page = "TradeInput"
  /\ Cardinality(objects) + Len(uploads) < MaxUploads
  /\ \E file \in Files :
       IF user = Null
         THEN UNCHANGED << isUploading, uploads, toast >>
       ELSE IF Len(file.type) < 2 \/ SubSeq(file.type, 1, 2) # << "image", "/" >>
         THEN /\ toast' = Some("Invalid File Type")
              /\ isUploading' = FALSE
              /\ UNCHANGED uploads
       ELSE IF FALSE
         THEN /\ toast' = Some("File Too Large")
              /\ isUploading' = FALSE
              /\ UNCHANGED uploads
       ELSE /\ isUploading' = TRUE
            /\ uploads' = Append(uploads, file)
            /\ UNCHANGED toast
  /\ UNCHANGED << rows, page, apiKey, content, user, store, filters, inflight, fetched,
                  changes, form, screenshotUrl, inserting, objects, actor, apiCalls,
                  loading, errorLogged, aggregated >>
  /\ UNCHANGED pageVars
  /\ UNCHANGED aiVars

\* PasteImageUpload.uploadFile up to the upload, for a file that is pasted,
\* dropped or selected: its checks return through the finally.
UploadFile ==
  /\ page = "TradeInput"
  /\ Cardinality(objects) + Len(uploads) < MaxUploads
  /\ \E file \in Files :
       IF user = Null
         THEN UNCHANGED << isUploading, uploads, toast >>
       ELSE IF Len(file.type) < 2 \/ SubSeq(file.type, 1, 2) # << "image", "/" >>
         THEN /\ toast' = Some("Invalid File Type")
              /\ isUploading' = FALSE
              /\ UNCHANGED uploads
       ELSE IF file.size > MaxFileSize
         THEN /\ toast' = Some("File Too Large")
              /\ isUploading' = FALSE
              /\ UNCHANGED uploads
       ELSE /\ isUploading' = TRUE
            /\ uploads' = Append(uploads, file)
            /\ UNCHANGED toast
  /\ UNCHANGED << rows, page, apiKey, content, user, store, filters, inflight, fetched,
                  changes, form, screenshotUrl, inserting, objects, actor, apiCalls,
                  loading, errorLogged, aggregated >>
  /\ UNCHANGED pageVars
  /\ UNCHANGED aiVars

\* PasteImageUpload.uploadFile from the answer to one of its uploads on:
\* the object is named after the user and the time, and onImageUploaded is
\* TradeInput's setScreenshotUrl.
UploadFileDone ==
  /\ page = "TradeInput"
  /\ \E i \in 1..Len(uploads), uploadError \in BOOLEAN :
       /\ uploads' = SubSeq(uploads, 1, i - 1) \o SubSeq(uploads, i + 1, Len(uploads))
       /\ IF uploadError
            THEN /\ errorLogged' = TRUE
                 /\ toast' = Some("Upload Failed")
                 /\ UNCHANGED << objects, screenshotUrl >>
            ELSE /\ objects' = objects \cup
                      { [folder |-> user[1], n |-> Cardinality(objects) + 1, file |-> uploads[i]] }
                 /\ screenshotUrl' =
                      Some([folder |-> user[1], n |-> Cardinality(objects) + 1])
                 /\ toast' = Some("Image Uploaded")
                 /\ UNCHANGED errorLogged
  /\ isUploading' = FALSE
  /\ UNCHANGED << rows, page, apiKey, content, user, store, filters, inflight, fetched,
                  changes, form, inserting, actor, apiCalls, loading, aggregated >>
  /\ UNCHANGED pageVars
  /\ UNCHANGED aiVars

\* An INSERT of a row into public.trades by any user of the API, or by
\* nobody: the policy FOR INSERT checks the new row.
ApiInsert ==
  /\ apiCalls < MaxApiCalls
  /\ apiCalls' = apiCalls + 1
  /\ \E uid \in {Null, Some("u1"), Some("u2")}, row \in Journal :
       /\ \A t \in store : t.id # row.id
       /\ actor' = uid
       /\ store' = IF OwnRow(uid, row) THEN store \cup {row} ELSE store
  /\ UNCHANGED << rows, page, apiKey, content, user, filters, inflight, fetched,
                  changes, form, screenshotUrl, inserting, isUploading, uploads,
                  objects, loading, errorLogged, toast, aggregated >>
  /\ UNCHANGED pageVars
  /\ UNCHANGED aiVars

\* An UPDATE of the rows of public.trades with one id, setting user_id and
\* outcome: the policy FOR UPDATE selects the rows and checks the new ones.
ApiUpdate ==
  /\ apiCalls < MaxApiCalls
  /\ apiCalls' = apiCalls + 1
  /\ \E uid \in {Null, Some("u1"), Some("u2")}, row \in store,
        owner \in {"u1", "u2"}, outcome \in Outcomes :
       /\ actor' = uid
       /\ store' = IF OwnRow(uid, row)
                       /\ OwnRow(uid, [row EXCEPT !.user_id = owner, !.outcome = outcome])
                     THEN (store \ {row})
                            \cup {[row EXCEPT !.user_id = owner, !.outcome = outcome]}
                     ELSE store
  /\ UNCHANGED << rows, page, apiKey, content, user, filters, inflight, fetched,
                  changes, form, screenshotUrl, inserting, isUploading, uploads,
                  objects, loading, errorLogged, toast, aggregated >>
  /\ UNCHANGED pageVars
  /\ UNCHANGED aiVars

\* A DELETE of the rows of public.trades with one id: the policy FOR DELETE
\* selects the rows.
ApiDelete ==
  /\ apiCalls < MaxApiCalls
  /\ apiCalls' = apiCalls + 1
  /\ \E uid \in {Null, Some("u1"), Some("u2")}, row \in store :
       /\ actor' = uid
       /\ store' = IF OwnRow(uid, row) THEN store \ {row} ELSE store
  /\ UNCHANGED << rows, page, apiKey, content, user, filters, inflight, fetched,
                  changes, form, screenshotUrl, inserting, isUploading, uploads,
                  objects, loading, errorLogged, toast, aggregated >>
  /\ UNCHANGED pageVars
  /\ UNCHANGED aiVars

NextApp ==
  \/ FetchTradesDone
  \/ FetchDashboardData
  \/ FetchDashboardStats
  \/ SignedOut
  \/ GenerateInsights
  \/ GetAIInsights
  \/ AnalyzeTrades
  \/ AnalyzeTradesDone
  \/ InsightsDone
  \/ GetAIInsightsDone
  \/ OnSubmit
  \/ OnSubmitDone
  \/ UploadFile
  \/ UploadFileDone
  \/ ApiInsert
  \/ ApiUpdate
  \/ ApiDelete

SpecApp == InitApp /\ [][NextApp]_vars

\* Rows whose amounts have cents, on one classification.
FPResults ==
  { [outcome |-> "Loss", risk |-> Some(10), reward |-> Null],
    [outcome |-> "Loss", risk |-> Some(20), reward |-> Null],
    [outcome |-> "Loss", risk |-> Some(30), reward |-> Some(45)],
    [outcome |-> "Win",  risk |-> Some(10), reward |-> Some(20)],
    [outcome |-> "Win",  risk |-> Null,     reward |-> Some(70)] }

FPRows ==
  { Row([pair |-> "EURUSD", session_name |-> "London", hour |-> 9,
         setup |-> Null], r) : r \in FPResults }

MaxFPTrades == 3

InitFP ==
  /\ rows \in ListsUpTo(FPRows, MaxFPTrades)
  /\ page \in {"Index", "Analytics"}
  /\ apiKey = TRUE
  /\ content = << "a" >>
  /\ user = Some("u1")
  /\ store = {}
  /\ inflight = << >>
  /\ form = Null
  /\ Mounted

NextFP == FetchTrades \/ FetchDashboardStats

SpecFP == InitFP /\ [][NextFP]_vars

\* Rows for the ranked lists: trade k has its own setup, one of four pairs,
\* one of the three seeded sessions, its own hour, and amounts with cents.
SetupNames ==
  << "Breakout", "Pullback", "Reversal", "Range", "Trend", "News", "Scalp",
     "7", "Fade", "Retest", "Sweep", "Flag", "Wedge", "Gap", "Channel", "Pivot" >>

PairNames == << "EURUSD", "GBPUSD", "USDJPY", "XAUUSD" >>

SessionNames == << "Asia", "London", "New York" >>

RankedTrade(k) ==
  Row([pair |-> PairNames[(k % Len(PairNames)) + 1],
       session_name |-> SessionNames[(k % Len(SessionNames)) + 1],
       hour |-> (5 * k) % HourSlots,
       setup |-> Some(SetupNames[k])],
      [outcome |-> IF k % 3 = 0 THEN "Loss" ELSE "Win",
       risk |-> Some(100 + 15 * k),
       reward |-> Some(37 * k)])

\* The most setups in a row of distinct setups, and the most trades that
\* repeat one setup after it.
MaxSetups == 12

MaxRepeats == 2

\* n trades of distinct setups, then e trades of setup j.
RankedLists ==
  { [i \in 1..(n + e) |-> IF i <= n THEN RankedTrade(i) ELSE RankedTrade(j)] :
      n \in 0..MaxSetups, e \in 0..MaxRepeats, j \in 1..MaxSetups }

InitRanked ==
  /\ rows \in RankedLists
  /\ page \in {"Analytics", "Dashboard"}
  /\ apiKey = TRUE
  /\ content = << "a" >>
  /\ user = Some("u1")
  /\ store = {}
  /\ inflight = << >>
  /\ form = Null
  /\ Mounted

NextRanked == FetchTrades \/ FetchDashboardData

SpecRanked == InitRanked /\ [][NextRanked]_vars

\* Rows for the group sums and the setup keys: two sessions, two pairs, whole
\* amounts; the setup is a label, null, the empty string, the literal of the
\* fallback, or a label that names an inherited property.
GroupRows ==
  { Row([pair |-> c[1], session_name |-> c[2], hour |-> 9, setup |-> c[3]], r) :
      c \in { << "EURUSD", "London", Some("Breakout") >>,
              << "GBPUSD", "London", Null >>,
              << "EURUSD", "Asia",   Some("") >>,
              << "GBPUSD", "Asia",   Some("Unknown") >>,
              << "EURUSD", "London", Some("constructor") >> },
      r \in { [outcome |-> "Win",  risk |-> Some(10000), reward |-> Some(20000)],
              [outcome |-> "Win",  risk |-> Some(10000), reward |-> Null],
              [outcome |-> "Loss", risk |-> Some(10000), reward |-> Null],
              [outcome |-> "BE",   risk |-> Null,        reward |-> Null] } }

MaxGroupTrades == 3

InitGroups ==
  /\ rows \in ListsUpTo(GroupRows, MaxGroupTrades)
  /\ page \in {"Analytics", "Dashboard"}
  /\ apiKey = TRUE
  /\ content = << "a" >>
  /\ user = Some("u1")
  /\ store = {}
  /\ inflight = << >>
  /\ form = Null
  /\ Mounted

NextGroups == FetchTrades \/ FetchDashboardData

SpecGroups == InitGroups /\ [][NextGroups]_vars

\* ---------------------------------------------------------------- claims

\* The mounted page's fetch has returned the rows and set its state.
Fetched == ~loading /\ ~errorLogged

\* The number of rows that satisfy P.
RowsWhere(P(_)) == Cardinality({ i \in 1..Len(rows) : P(rows[i]) })

\* The number of rows of key k that satisfy P.
RowsOf(KeyOf(_), k, P(_)) ==
  Cardinality({ i \in 1..Len(rows) : KeyOf(rows[i]) = k /\ P(rows[i]) })

AnyTrade(t) == TRUE

RECURSIVE SumSeq(_)
SumSeq(s) == IF s = << >> THEN 0 ELSE s[1] + SumSeq(Tail(s))

\* What a trade adds to the P&L, in cents.
SignedCents(t) ==
  IF t.outcome = "Win" /\ t.reward # Null THEN t.reward[1]
  ELSE IF t.outcome = "Loss" /\ t.risk # Null THEN -t.risk[1]
  ELSE 0

\* The signed sum over the rows of key k, as the number it is when the
\* amounts are whole.
SignedSumOf(KeyOf(_), k) ==
  NInt(SumSeq([i \in 1..Len(rows) |->
                 IF KeyOf(rows[i]) = k THEN SignedCents(rows[i]) ELSE 0]) \div 100)

SignedSum ==
  NInt(SumSeq([i \in 1..Len(rows) |-> SignedCents(rows[i])]) \div 100)

\* q is the number 100 * w / n if n > 0, and 0 if n = 0.
IsRate(q, w, n) ==
  /\ q.d # 0
  /\ IF n = 0 THEN q.n = 0 ELSE q.n * n = 100 * w * q.d

\* C1, as stated: the statistics the analyze-trades function builds satisfy
\* wins + losses + breakevens = totalTrades.
C1_Original ==
  tradeStats # Null =>
    tradeStats[1].wins + tradeStats[1].losses + tradeStats[1].breakevens
      = tradeStats[1].totalTrades

SumCounts(list) == SumSeq([b \in 1..Len(list) |-> list[b].count])

HasNonNegRatio(t) == t.risk_reward_ratio # Null /\ t.risk_reward_ratio[1] >= 0

\* C2, as stated: a trade whose risk_reward_ratio is null is counted in no
\* bucket, so the bucket counts of rrDistribution and of profitableRR sum to
\* the number of trades whose ratio is defined (and not below the first
\* boundary).
C2_Original ==
  /\ analytics # Null =>
       SumCounts(analytics[1].rrDistribution) = RowsWhere(HasNonNegRatio)
  /\ dashboardData # Null =>
       SumCounts(dashboardData[1].profitableRR) = RowsWhere(HasNonNegRatio)

SessionKey(e) == e.session

HourKey(e) == e.hour

PairKey(e) == e.pair

\* Every entry of a Dashboard list has the win rate and the P&L of its
\* group, each Win counted as a win.
GroupsCountWins(list, KeyField(_), KeyOf(_)) ==
  \A i \in 1..Len(list) :
    /\ IsRate(list[i].winRate, RowsOf(KeyOf, KeyField(list[i]), IsWin), list[i].count)
    /\ list[i].pnl = SignedSumOf(KeyOf, KeyField(list[i]))

\* C3, as stated: in the Dashboard's session, hour and pair groups and in
\* Analytics' pair groups a Win without a reward counts as a win and adds 0
\* to the P&L, and a Loss without a risk counts as a loss and adds 0.
C3_Original ==
  /\ dashboardData # Null =>
       /\ GroupsCountWins(dashboardData[1].profitableSessions, SessionKey, SessionOf)
       /\ GroupsCountWins(dashboardData[1].profitableHours, HourKey, HourOf)
       /\ GroupsCountWins(dashboardData[1].profitablePairs, PairKey, PairOf)
  /\ analytics # Null =>
       \A i \in 1..Len(analytics[1].pairStats) :
         LET e == analytics[1].pairStats[i]
         IN  /\ e.wins = RowsOf(PairOf, e.pair, IsWin)
             /\ e.losses = RowsOf(PairOf, e.pair, IsLoss)
             /\ e.pnl = SignedSumOf(PairOf, e.pair)

\* C4: totalPnL of Analytics and of Index is the signed sum of +reward over
\* the Wins with a reward and -risk over the Losses with a risk; every other
\* trade adds 0.  (The rows of Spec have whole amounts, whose sums are exact.)
C4_TotalPnL ==
  /\ analytics # Null => analytics[1].totalPnL = SignedSum
  /\ stats # Null => stats[1].totalPnL = SignedSum

\* Analytics has summed a Loss without a risk and a Win with a reward.
C4_Witness ==
  /\ page = "Analytics"
  /\ analytics # Null
  /\ Len(rows) = 2
  /\ rows[1].outcome = "Loss" /\ rows[1].risk = Null
  /\ rows[2].outcome = "Win" /\ rows[2].reward = Some(300)
  /\ analytics[1].totalPnL = NInt(3)

\* The orders of the list s.
OrdersOf(s) ==
  { [i \in 1..Len(s) |-> s[p[i]]] :
      p \in { q \in [1..Len(s) -> 1..Len(s)] :
                \A i, j \in 1..Len(s) : q[i] = q[j] => i = j } }

\* C5, as stated: totalPnL of Analytics and of Index is the same for every
\* order of the same trades.
C5_Original ==
  /\ analytics # Null =>
       \A p \in OrdersOf(rows) : A_totalPnL(p) = analytics[1].totalPnL
  /\ stats # Null =>
       \A p \in OrdersOf(rows) : I_totalPnL(p) = stats[1].totalPnL

AtHour(h) == Cardinality({ i \in 1..Len(rows) : rows[i].hour = h })

WinsAtHour(h) ==
  Cardinality({ i \in 1..Len(rows) : rows[i].hour = h /\ rows[i].outcome = "Win" })

BucketsA ==
  << [range |-> "0-0.5", lo |-> 0,   hi |-> Some(50)],
     [range |-> "0.5-1", lo |-> 50,  hi |-> Some(100)],
     [range |-> "1-1.5", lo |-> 100, hi |-> Some(150)],
     [range |-> "1.5-2", lo |-> 150, hi |-> Some(200)],
     [range |-> "2-3",   lo |-> 200, hi |-> Some(300)],
     [range |-> "3+",    lo |-> 300, hi |-> Null] >>

BucketsB ==
  << [range |-> "< 1",   lo |-> 0,   hi |-> Some(100)],
     [range |-> "1-1.5", lo |-> 100, hi |-> Some(150)],
     [range |-> "1.5-2", lo |-> 150, hi |-> Some(200)],
     [range |-> "2-3",   lo |-> 200, hi |-> Some(300)],
     [range |-> "> 3",   lo |-> 300, hi |-> Null] >>

\* The number of rows whose ratio is defined and lies in the bucket.
RatiosIn(bucket) ==
  Cardinality({ i \in 1..Len(rows) :
    /\ rows[i].risk_reward_ratio # Null
    /\ rows[i].risk_reward_ratio[1] >= bucket.lo
    /\ (bucket.hi = Null \/ rows[i].risk_reward_ratio[1] < bucket.hi[1]) })

NoNullRatio == \A i \in 1..Len(rows) : rows[i].risk_reward_ratio # Null

\* The list counts, bucket by bucket, the defined ratios of the bucket; the
\* first bucket is compared when every ratio is defined.
CountsByBucket(list, buckets) ==
  /\ Len(list) = Len(buckets)
  /\ \A b \in 1..Len(buckets) :
       /\ list[b].range = buckets[b].range
       /\ (b > 1 \/ NoNullRatio) => list[b].count = RatiosIn(buckets[b])

\* C8: the buckets of rrDistribution and of profitableRR are left-inclusive
\* and right-exclusive, the last unbounded: a defined ratio >= 0 is counted
\* in exactly the one bucket it lies in, 1.5 in "1.5-2" and not in "1-1.5".
C8_Buckets ==
  /\ analytics # Null => CountsByBucket(analytics[1].rrDistribution, BucketsA)
  /\ dashboardData # Null => CountsByBucket(dashboardData[1].profitableRR, BucketsB)

\* The Dashboard has bucketed one trade of ratio exactly 1.5.
C8_Witness ==
  /\ page = "Dashboard"
  /\ dashboardData # Null
  /\ Len(rows) = 1
  /\ rows[1].risk_reward_ratio = Some(150)
  /\ dashboardData[1].profitableRR[3].range = "1.5-2"
  /\ dashboardData[1].profitableRR[3].count = 1
  /\ dashboardData[1].profitableRR[2].count = 0

\* C9: hourlyStats has exactly 24 entries, entry i for hour i - 1, and an
\* hour without trades has wins, losses, total and winRate 0.
C9_HourlyStats ==
  analytics # Null =>
    /\ Len(analytics[1].hourlyStats) = 24
    /\ \A i \in 1..Len(analytics[1].hourlyStats) :
         LET e == analytics[1].hourlyStats[i]
         IN  /\ e.hour = i - 1
             /\ e.total = AtHour(i - 1)
             /\ AtHour(i - 1) = 0 =>
                  /\ e.wins = 0 /\ e.losses = 0 /\ e.total = 0
                  /\ e.winRate = [n |-> 0, d |-> 1]

\* Analytics has laid out the hours of a single trade at hour 9.
C9_Witness ==
  /\ page = "Analytics"
  /\ analytics # Null
  /\ Len(rows) = 1
  /\ rows[1].hour = 9
  /\ Len(analytics[1].hourlyStats) = 24
  /\ analytics[1].hourlyStats[10].total = 1
  /\ analytics[1].hourlyStats[1].total = 0

KeysSeen(KeyOf(_)) == { KeyOf(rows[i]) : i \in 1..Len(rows) }

\* The list holds each group key once and is non-increasing by P&L.
RankedByPnl(list, KeyField(_), KeyOf(_)) ==
  /\ Len(list) = Cardinality(KeysSeen(KeyOf))
  /\ { KeyField(list[i]) : i \in 1..Len(list) } = KeysSeen(KeyOf)
  /\ \A i, j \in 1..Len(list) : i < j => ~NumLess(list[i].pnl, list[j].pnl)

\* The list holds the ten most-traded setups (all if there are fewer), each
\* once with its number of trades, non-increasing by that number.
TopTenSetups(list) ==
  /\ Len(list) = IF Cardinality(KeysSeen(SetupOf)) < 10
                   THEN Cardinality(KeysSeen(SetupOf)) ELSE 10
  /\ \A i \in 1..Len(list) :
       /\ list[i].setup \in KeysSeen(SetupOf)
       /\ list[i].total = RowsOf(SetupOf, list[i].setup, AnyTrade)
  /\ \A i, j \in 1..Len(list) :
       i < j => list[i].total >= list[j].total /\ list[i].setup # list[j].setup
  /\ \A k \in KeysSeen(SetupOf) \ { list[i].setup : i \in 1..Len(list) } :
       \A i \in 1..Len(list) : RowsOf(SetupOf, k, AnyTrade) <= list[i].total

\* C10: setupStats is ordered by trade count and cut to the ten most-traded
\* setups; profitableSessions, profitableHours and profitablePairs are
\* ordered by P&L; each list holds a group key once.
C10_Ranked ==
  /\ analytics # Null => TopTenSetups(analytics[1].setupStats)
  /\ dashboardData # Null =>
       /\ RankedByPnl(dashboardData[1].profitableSessions, SessionKey, SessionOf)
       /\ RankedByPnl(dashboardData[1].profitableHours, HourKey, HourOf)
       /\ RankedByPnl(dashboardData[1].profitablePairs, PairKey, PairOf)

\* Analytics has cut more than ten setups to ten, a setup of three trades
\* first.
C10_Witness ==
  /\ page = "Analytics"
  /\ analytics # Null
  /\ Cardinality(KeysSeen(SetupOf)) > 10
  /\ Len(analytics[1].setupStats) = 10
  /\ analytics[1].setupStats[1].total = 3
  /\ analytics[1].setupStats[2].total = 1

\* The index of the first row of key k.
FirstAt(KeyOf(_), k) ==
  CHOOSE i \in 1..Len(rows) :
    /\ KeyOf(rows[i]) = k
    /\ \A j \in 1..(i - 1) : KeyOf(rows[j]) # k

\* Entries of equal trade count stand in the order their keys were first met.
TiesByTotal(list, KeyField(_), KeyOf(_)) ==
  \A i, j \in 1..Len(list) :
    (i < j /\ list[i].total = list[j].total) =>
      FirstAt(KeyOf, KeyField(list[i])) < FirstAt(KeyOf, KeyField(list[j]))

\* Entries of equal P&L stand in the order their keys were first met.
TiesByPnl(list, KeyField(_), KeyOf(_)) ==
  \A i, j \in 1..Len(list) :
    (i < j /\ ~NumLess(list[i].pnl, list[j].pnl) /\ ~NumLess(list[j].pnl, list[i].pnl)) =>
      FirstAt(KeyOf, KeyField(list[i])) < FirstAt(KeyOf, KeyField(list[j]))

SetupKey(e) == e.setup

\* C11, as stated: in setupStats, pairStats, profitableSessions,
\* profitableHours and profitablePairs two groups of equal sort key stand in
\* the order in which their keys were first met in the trade list.
C11_Original ==
  /\ analytics # Null =>
       /\ TiesByTotal(analytics[1].setupStats, SetupKey, SetupOf)
       /\ TiesByTotal(analytics[1].pairStats, PairKey, PairOf)
  /\ dashboardData # Null =>
       /\ TiesByPnl(dashboardData[1].profitableSessions, SessionKey, SessionOf)
       /\ TiesByPnl(dashboardData[1].profitableHours, HourKey, HourOf)
       /\ TiesByPnl(dashboardData[1].profitablePairs, PairKey, PairOf)

\* C12, as stated: for every order of the same trades calculateAnalytics
\* gives the same output, scalars and lists element by element.
C12_Original ==
  analytics # Null =>
    \A p \in OrdersOf(rows) : calculateAnalytics(p) = analytics

\* The key the claim gives a trade: its setup if present, else 'Unknown'.
SetupLabel(t) ==
  IF t.setup # Null /\ t.setup[1] # "" THEN t.setup[1] ELSE "Unknown"

\* C13, as stated: the setup groups are keyed by the trade's setup, or by
\* 'Unknown' when it is null or empty, and every trade is counted in exactly
\* one group: each key met has one entry, whose total is the number of its
\* trades, and the totals add up to the number of trades.
C13_Original ==
  analytics # Null =>
    /\ { analytics[1].setupStats[i].setup : i \in 1..Len(analytics[1].setupStats) }
         = { SetupLabel(rows[i]) : i \in 1..Len(rows) }
    /\ \A i \in 1..Len(analytics[1].setupStats) :
         analytics[1].setupStats[i].total
           = Cardinality({ j \in 1..Len(rows) :
                           SetupLabel(rows[j]) = analytics[1].setupStats[i].setup })
    /\ SumSeq([i \in 1..Len(analytics[1].setupStats) |->
                 analytics[1].setupStats[i].total]) = Len(rows)

\* Every Dashboard entry has the number and the signed sum of the trades of
\* its key; the counts add up to the number of trades and the P&Ls to the
\* signed sum over all trades.
GroupSums(list, KeyField(_), KeyOf(_)) ==
  /\ \A i \in 1..Len(list) :
       /\ list[i].count = RowsOf(KeyOf, KeyField(list[i]), AnyTrade)
       /\ list[i].pnl = SignedSumOf(KeyOf, KeyField(list[i]))
  /\ SumSeq([i \in 1..Len(list) |-> list[i].count]) = Len(rows)
  /\ NInt(SumSeq([i \in 1..Len(list) |-> list[i].pnl.v])) = SignedSum

\* C14: each session and pair group of the Dashboard and each pair group of
\* Analytics is the aggregate of the trades of its key: the group totals add
\* up to the number of trades and the group P&Ls to totalPnL.  (The rows of
\* SpecGroups have whole amounts, whose sums are exact.)
C14_GroupSums ==
  /\ dashboardData # Null =>
       /\ GroupSums(dashboardData[1].profitableSessions, SessionKey, SessionOf)
       /\ GroupSums(dashboardData[1].profitablePairs, PairKey, PairOf)
  /\ analytics # Null =>
       /\ \A i \in 1..Len(analytics[1].pairStats) :
            /\ analytics[1].pairStats[i].total
                 = RowsOf(PairOf, analytics[1].pairStats[i].pair, AnyTrade)
            /\ analytics[1].pairStats[i].pnl
                 = SignedSumOf(PairOf, analytics[1].pairStats[i].pair)
       /\ SumSeq([i \in 1..Len(analytics[1].pairStats) |->
                    analytics[1].pairStats[i].total]) = analytics[1].totalTrades
       /\ NInt(SumSeq([i \in 1..Len(analytics[1].pairStats) |->
                         analytics[1].pairStats[i].pnl.v])) = analytics[1].totalPnL

\* The Dashboard has grouped the claim's example: a Win of reward 200 and a
\* Loss of risk 100 in London, a break-even in Asia.
C14_Witness ==
  /\ page = "Dashboard"
  /\ dashboardData # Null
  /\ Len(rows) = 3
  /\ rows[1].outcome = "Win" /\ rows[1].reward = Some(20000)
  /\ rows[1].session_name = "London"
  /\ rows[2].outcome = "Loss" /\ rows[2].risk = Some(10000)
  /\ rows[2].session_name = "London"
  /\ rows[3].outcome = "BE" /\ rows[3].session_name = "Asia"
  /\ dashboardData[1].profitableSessions
       = << [session |-> "London", pnl |-> NInt(100), winRate |-> [n |-> 50, d |-> 1],
             count |-> 2],
            [session |-> "Asia", pnl |-> NInt(0), winRate |-> [n |-> 0, d |-> 1],
             count |-> 1] >>

NoTrades(body) == body = Null \/ Len(body[1]) = 0

\* C16: with zero trades the pipeline reports that there is no data and the
\* text-generation endpoint is never called.  generateInsights given an
\* empty list shows 'No Data' and invokes nothing, and no request of
\* AIInsights is without trades; the function answers a request whose list
\* is missing or empty with 400 'No trade data provided', without a fetch
\* and without statistics.
C16_NoData ==
  /\ generateInsights(<< >>) = [toast |-> Some("No Data"), invoke |-> Null]
  /\ (page = "Analytics" /\ aiRequest # Null) => ~NoTrades(aiRequest[1])
  /\ \A key \in BOOLEAN, s \in UpstreamStatuses :
       /\ analyzeTrades(Some(<< >>), key, s).status = 400
       /\ ~analyzeTrades(Some(<< >>), key, s).called
  /\ (serving # Null /\ NoTrades(serving[1])) =>
       /\ ~awaiting
       /\ upstream = Null
       /\ fetches = 0
       /\ tradeStats = Null
       /\ aiRequest = Null =>
            \/ aiResponse = Some([status |-> 400,
                                  error |-> Err("No trade data provided", Null)])
            \/ (aiResponse = Null /\ ~loadingAI /\ toast = Some("Error"))

\* The function has answered Dashboard's request, which has no trades,
\* while the key is set and there are trades in the journal.
C16_Witness ==
  /\ page = "Dashboard"
  /\ apiKey
  /\ Len(rows) > 0
  /\ serving = Some(Null)
  /\ aiResponse # Null
  /\ aiResponse[1].status = 400
  /\ fetches = 0

\* The function has answered the request it served after the endpoint
\* answered s, and the response is on its way to the caller.
Answered(s) == upstream = Some(s) /\ ~awaiting /\ aiResponse # Null

\* C17: when the endpoint answers 429 the function responds 429 with the
\* rate-limit error, and when it answers 402 it responds 402 with the
\* payment-required error; neither response is the generic failure, 500.
C17_RateLimitAndPayment ==
  /\ Answered(429) =>
       aiResponse[1] = [status |-> 429,
                        error |-> Err("Rate limit exceeded. Please try again later.", Null)]
  /\ Answered(402) =>
       aiResponse[1] = [status |-> 402,
                        error |-> Err("Payment required. Please add credits to your workspace.", Null)]
  /\ (Answered(429) \/ Answered(402)) => aiResponse[1].status # 500

\* The endpoint answered 429 to the second fetch of a behaviour whose first
\* request ended in an error toast.
C17_Witness ==
  /\ Answered(429)
  /\ fetches = 2
  /\ toast = Some("Error")
  /\ analysis = Null

\* C18: when the endpoint answers a status outside 2xx other than 429 and
\* 402, the function responds with the generic failure, status 500, and the
\* error of the response carries the endpoint's status.
C18_GenericFailure ==
  \A s \in UpstreamStatuses \ ((200..299) \cup {429, 402}) :
    Answered(s) =>
      /\ aiResponse[1].status = 500
      /\ aiResponse[1].error = Err("AI API error: ", Some(s))

\* The endpoint answered 503 and the function's response is on its way.
C18_Witness == Answered(503) /\ aiResponse[1].status = 500 /\ isLoading

\* A step of the pipeline retries nothing: a fetch is made only by the step
\* that takes a request out of flight, and once; a request is put in flight
\* only by the step of a click, and once.
OneCallEach ==
  /\ fetches' # fetches =>
       (fetches' = fetches + 1 /\ aiRequest # Null /\ aiRequest' = Null)
  /\ invokes' # invokes =>
       (invokes' = invokes + 1 /\ clicks' = clicks + 1)
  /\ (aiRequest' # Null /\ aiRequest' # aiRequest) =>
       (aiRequest = Null /\ invokes' = invokes + 1)
  /\ awaiting' => (awaiting \/ fetches' = fetches + 1)

\* C19: no error is retried.  Whatever the endpoint answers, the function
\* calls it at most once for a request, and a click on an insight button
\* invokes the function at most once: there are never more fetches than
\* invokes nor more invokes than clicks, and no step makes a second call.
C19_NoRetry ==
  /\ [](fetches <= invokes /\ invokes <= clicks)
  /\ [][OneCallEach]_vars

\* The endpoint answered 500, the function answered its caller, AIInsights
\* showed the error and went idle: one click, one invoke, one fetch.
C19_Witness ==
  /\ page = "Analytics"
  /\ upstream = Some(500)
  /\ toast = Some("Error")
  /\ ~isLoading /\ ~awaiting
  /\ aiRequest = Null /\ aiResponse = Null
  /\ clicks = 1 /\ invokes = 1 /\ fetches = 1

\* The response that reports the missing credential.
ConfigurationError ==
  [status |-> 500, error |-> Err("LOVABLE_API_KEY not configured", Null)]

C21_Original ==
  (page = "Dashboard" /\ apiKey /\ serving # Null /\ ~awaiting /\ aiResponse # Null) =>
    /\ fetches > 0
    /\ upstream # Null
    /\ upstream = Some(200) => aiResponse[1].status = 200

\* A line with no character other than whitespace.
Blank(line) == \A j \in 1..Len(line) : line[j] \in Whitespace

\* The first character of a line that is not whitespace is one of chars.
FirstInkIn(line, chars) ==
  \E j \in 1..Len(line) :
    /\ line[j] \in chars
    /\ \A k \in 1..(j - 1) : line[k] \in Whitespace

\* The elements a rendering shows: its entries that are not null, in order.
Shown(out) == Cardinality({ i \in 1..Len(out) : out[i] # Null })

\* C22: AIInsights renders each line of the text as exactly one of a heading
\* (the line begins with '#'), a list item (its first character after
\* leading whitespace is '-' or '*'), a paragraph (any other line that is
\* not blank) or nothing; a line is dropped if and only if it is blank, so
\* there are as many rendered elements as lines that are not blank, in the
\* order of the lines.
C22_LineKinds ==
  (analysis # Null /\ Len(analysis[1]) > 0) =>
    /\ Len(renderAnalysis(analysis)) = Len(SplitLines(analysis[1]))
    /\ \A i \in 1..Len(SplitLines(analysis[1])) :
         /\ renderAnalysis(analysis)[i] = Null <=> Blank(SplitLines(analysis[1])[i])
         /\ renderAnalysis(analysis)[i] # Null =>
              renderAnalysis(analysis)[i].tag =
                IF StartsWith(SplitLines(analysis[1])[i], "#") THEN "h"
                ELSE IF FirstInkIn(SplitLines(analysis[1])[i], {"-", "*"}) THEN "li"
                ELSE "p"
    /\ Shown(renderAnalysis(analysis)) =
         Cardinality({ i \in 1..Len(SplitLines(analysis[1])) :
                         ~Blank(SplitLines(analysis[1])[i]) })

\* A text of a list item and a blank line has been rendered: two lines, one
\* element.
C22_Witness ==
  /\ analysis = Some(<< "-", "\n", " " >>)
  /\ Len(renderAnalysis(analysis)) = 2
  /\ Shown(renderAnalysis(analysis)) = 1

\* A trade with a positive risk and a reward.
HasRatio(t) == t.risk # Null /\ t.risk[1] > 0 /\ t.reward # Null

\* C23: wherever a risk-reward ratio is derived it is reward / risk when
\* risk > 0 and a reward is present, and missing otherwise.  The stored
\* column and the dialog's rrRatio of every trade shown are present exactly
\* for those trades; the function's rrRatios has one entry for each of them,
\* with the quotient of its reward by its risk, and none is infinite.
C23_Original ==
  /\ \A i \in 1..Len(trades) :
       /\ trades[i].risk_reward_ratio # Null <=> HasRatio(trades[i])
       /\ rrRatio(trades[i]) # Null <=> HasRatio(trades[i])
  /\ tradeStats # Null =>
       /\ Len(tradeStats[1].rrRatios)
            = Cardinality({ i \in 1..Len(serving[1][1]) : HasRatio(serving[1][1][i]) })
       /\ \A j \in 1..Len(tradeStats[1].rrRatios) : tradeStats[1].rrRatios[j].rr[1].d # 0

\* A stored trade that belongs to the user and passes every active filter
\* of q.
Selected(t, q) ==
  /\ t.user_id = user[1]
  /\ (q.from = Null \/ q.to = Null
        \/ (t.trade_datetime >= q.from[1] /\ t.trade_datetime <= q.to[1]))
  /\ (q.pair = "all" \/ t.pair = q.pair)
  /\ (q.session = "all" \/ t.session_name = q.session)

C25_Original ==
  (page = "Analytics" /\ fetched # Null /\ inflight = << >> /\ ~errorLogged) =>
    /\ trades = QueryTrades(store, user[1], filters)
    /\ analytics = calculateAnalytics(QueryTrades(store, user[1], filters))

\* C27: in Analytics, after any sequence of successful and failed fetches,
\* analytics is null if and only if the trades list is empty, a summary that
\* is not null counts as many trades as the list holds, and a fetch that
\* fails leaves trades and analytics as they were.
C27_AnalyticsMatchesTrades ==
  /\ [](page = "Analytics" =>
          /\ analytics = Null <=> Len(trades) = 0
          /\ analytics # Null => analytics[1].totalTrades = Len(trades))
  /\ [][(page = "Analytics" /\ fetched' # fetched /\ fetched'[1].error)
          => UNCHANGED << trades, analytics >>]_vars

\* A fetch has failed after an earlier one had brought two trades, which
\* are still shown.
C27_Witness ==
  /\ page = "Analytics"
  /\ fetched # Null /\ fetched[1].error
  /\ Len(trades) = 2
  /\ analytics # Null
  /\ inflight = << >>
  /\ form = Null

\* A step of onSubmit that receives the answer to its insert.
SubmitAnswered == inserting # Null /\ inserting' = Null

\* C29: onSubmit clears the form and the screenshot URL only after its
\* insert succeeded, then with exactly one new row, the submitted one, in
\* the table; when the insert fails the form, the URL and the table are
\* as before; a submit makes one request, and no other step of the page
\* clears the form.
C29_ClearedAfterInsert ==
  [][ /\ SubmitAnswered =>
           \/ /\ form' = Null
              /\ screenshotUrl' = Null
              /\ toast' = Some("Trade Saved")
              /\ \E t \in store' \ store :
                   /\ store' = store \cup {t}
                   /\ t.user_id = user[1]
                   /\ t.pair = form[1].pair
                   /\ t.risk = form[1].risk
                   /\ t.reward = form[1].reward
                   /\ t.screenshot_url = inserting[1].screenshot_url
           \/ /\ toast' = Some("Error")
              /\ UNCHANGED << form, screenshotUrl, store >>
      /\ (inserting = Null /\ inserting' # Null) =>
           /\ form # Null
           /\ UNCHANGED << form, screenshotUrl, store >>
      /\ (inserting # Null /\ inserting' # Null) => inserting' = inserting
      /\ form' # form => (SubmitAnswered /\ store' # store)
    ]_vars

\* The form was saved with a screenshot: the row is in the table and the
\* form and the URL are cleared.
C29_Witness ==
  /\ page = "TradeInput"
  /\ form = Null
  /\ screenshotUrl = Null
  /\ inserting = Null
  /\ toast = Some("Trade Saved")
  /\ \E t \in store : t.id >= 5 /\ t.screenshot_url # Null

\* An insert failed: the form keeps its values and the URL.
C29_Failed ==
  /\ page = "TradeInput"
  /\ toast = Some("Error")
  /\ form # Null
  /\ screenshotUrl # Null
  /\ inserting = Null

\* file.type.startsWith('image/') on the parts of a type.
IsImage(file) == Len(file.type) >= 2 /\ file.type[1] = "image" /\ file.type[2] = "/"

\* C28: every file that uploadFile sends or has stored is an image of at
\* most 5 MB (a file of exactly 5 MB may be one) under the folder of the
\* signed-in user, and nothing is sent, stored or set without a user;
\* onImageUploaded is called with a URL only in the step that stores the
\* file, and an upload that fails leaves the screenshot URL as it was.
C28_UploadChecks ==
  /\ [](page = "TradeInput" =>
          /\ \A i \in 1..Len(uploads) :
               IsImage(uploads[i]) /\ uploads[i].size <= MaxFileSize /\ user # Null
          /\ \A o \in objects :
               /\ IsImage(o.file)
               /\ o.file.size <= MaxFileSize
               /\ user # Null
               /\ o.folder = user[1]
          /\ (user = Null => screenshotUrl = Null))
  /\ [][ /\ (screenshotUrl' # screenshotUrl /\ screenshotUrl' # Null) =>
              \E o \in objects' \ objects :
                /\ objects' = objects \cup {o}
                /\ screenshotUrl' = Some([folder |-> o.folder, n |-> o.n])
                /\ Len(uploads') = Len(uploads) - 1
         /\ (Len(uploads') < Len(uploads) /\ toast' = Some("Upload Failed")) =>
              UNCHANGED << screenshotUrl, objects >>
         /\ objects' # objects => Len(uploads') = Len(uploads) - 1
         /\ (toast' # toast /\ toast' \in {Some("Invalid File Type"), Some("File Too Large")})
              => UNCHANGED << uploads, objects, screenshotUrl >>
       ]_vars

\* An image of exactly 5 MB is stored and its URL is the screenshot URL.
C28_Witness ==
  /\ page = "TradeInput"
  /\ \E o \in objects :
       /\ o.file.size = MaxFileSize
       /\ screenshotUrl = Some([folder |-> o.folder, n |-> o.n])

\* The users of the API: the two accounts and the anonymous one.
ApiUsers == {Null, Some("u1"), Some("u2")}

\* C30: whatever statements any users have run, SELECT shows a user only
\* rows with their own user_id and shows nothing to the anonymous user; a
\* statement changes the table only by adding, replacing or removing rows
\* whose user_id is that of its user; and the queries of the pages, with
\* any filters, answer only with rows of the signed-in user, as do the
\* trades that Analytics shows.
C30_OwnRowsOnly ==
  /\ [](\A uid \in ApiUsers : \A t \in SelectTrades(store, uid) :
          uid # Null /\ t.user_id = uid[1])
  /\ [](user # Null =>
          \A q \in FilterValues \cup
                   {[from |-> Null, to |-> Null, pair |-> "all", session |-> "all"]} :
            \A i \in 1..Len(QueryTrades(SelectTrades(store, user), user[1], q)) :
              QueryTrades(SelectTrades(store, user), user[1], q)[i].user_id = user[1])
  /\ [](page \in {"Analytics", "Dashboard", "Index"} =>
          /\ \A i \in 1..Len(trades) : user # Null /\ trades[i].user_id = user[1]
          /\ \A i \in 1..Len(rows) : user # Null /\ rows[i].user_id = user[1])
  /\ [][store' # store =>
          /\ actor' # Null
          /\ \A t \in (store \ store') \cup (store' \ store) : t.user_id = actor'[1]
       ]_vars

\* Analytics shows the trades of u1 from a table that also holds a row of
\* u2, after statements the last of which was run by u2.
C30_Witness ==
  /\ page = "Analytics"
  /\ user = Some("u1")
  /\ Len(trades) > 0
  /\ apiCalls = MaxApiCalls
  /\ actor = Some("u2")
  /\ \E t \in store : t.user_id = "u2"

\* A request of one of the insight buttons is on its way.
InsightPending == aiRequest # Null \/ awaiting \/ aiResponse # Null

\* C26: the step in which an asynchronous operation finishes, by success,
\* by an error or by an early return, leaves the flag it raised false:
\* the answer to an insight request (isLoading, loadingAI), to a fetch of
\* Analytics, Dashboard or Index (loading), to an insert of TradeInput
\* (loading) and to an upload (isUploading), and the rejection of a file;
\* and no flag that an operation raised is true when none is pending.
C26_FlagsLowered ==
  /\ [][ /\ (aiResponse # Null /\ aiResponse' = Null) => (~isLoading' /\ ~loadingAI')
         /\ (page = "Analytics" /\ Len(inflight') < Len(inflight)) => ~loading'
         /\ (page = "Analytics" /\ fetched' # fetched) => ~loading'
         /\ (page = "Dashboard" /\ << dashboardData, errorLogged >>' # << dashboardData, errorLogged >>)
              => ~loading'
         /\ (page = "Index" /\ << stats, errorLogged >>' # << stats, errorLogged >>)
              => ~loading'
         /\ (page \in {"Dashboard", "Index"} /\ loading' # loading) => ~loading'
         /\ (inserting # Null /\ inserting' = Null) => ~loading'
         /\ Len(uploads') < Len(uploads) => ~isUploading'
         /\ (toast' # toast /\ toast' \in {Some("Invalid File Type"), Some("File Too Large")})
              => ~isUploading'
       ]_vars
  /\ []((isLoading \/ loadingAI) => InsightPending)
  /\ [](page = "TradeInput" => (loading <=> inserting # Null))
  /\ [](isUploading => Len(uploads) > 0)
  /\ []((page = "Analytics" /\ user # Null /\ loading) => Len(inflight) > 0)

\* An insert was answered, an operation has failed and a file was rejected
\* last, with no flag left up.
C26_Witness ==
  /\ page = "TradeInput"
  /\ errorLogged
  /\ toast = Some("Invalid File Type")
  /\ actor = user
  /\ user # Null
  /\ ~loading
  /\ ~isUploading
  /\ inserting = Null
  /\ uploads = << >>

====
